---- MODULE Spec2Model ----
(***************************************************************************)
(* netra-profiler: the multi-pass orchestrator Profiler.profile() of       *)
(* src/netra_profiler/core.py, the plan builders of engine.py and the      *)
(* diagnostic engine of alerts.py, as a state machine.                     *)
(*                                                                         *)
(* The external query engine (polars) is the environment: every call into  *)
(* it (collect, collect_all, hist, corr, ...) either returns or raises,    *)
(* chosen nondeterministically.  A profile key "{column}_{metric}" is the  *)
(* pair [column, metric]; the three top-level keys "_meta", "correlations" *)
(* and "alerts" have an empty column part.                                 *)
(***************************************************************************)
EXTENDS Integers, Sequences, FiniteSets, TLC

\* ------------------------------------------------------------------ bounds
MaxCols == 2
MaxRows == 1
MaxListLen == 6

\* core.py:12
CORRELATION_SAMPLE_SIZE == 100000

VARIABLES
    df,             \* self._df: the preprocessed frame (row count, columns)
    top_k,          \* profile()'s top_k argument
    pc,             \* the stage profile() is about to run
    profile,        \* the profile record (a function from keys to values)
    warnings_list,  \* profile()'s warnings_list, aliased by _meta["warnings"]
    outcome,        \* "running" | "returned" | "raised"
    error,          \* the exception profile() raised, if any
    trace,          \* history: the stages started, in order
    faults,         \* history: the exceptions raised by engine calls, in order
    data,           \* Profiler(data): the constructor's argument
    engine          \* a DiagnosticEngine instance that is run more than once

vars == <<df, top_k, pc, profile, warnings_list, outcome, error, trace, faults, data, engine>>

Min(a, b) == IF a < b THEN a ELSE b

\* ------------------------------------------------------------------ values
\* The Python values the diagnostic engine tells apart: None, a float NaN, a
\* number (in thousandths) and a string.
None == [kind |-> "None", milli |-> 0, text |-> ""]
NaN == [kind |-> "nan", milli |-> 0, text |-> ""]
Number(m) == [kind |-> "number", milli |-> m, text |-> ""]
Str(t) == [kind |-> "str", milli |-> 0, text |-> t]

\* No constructor argument kept, and no engine instance kept.
NoData == [kind |-> "None", schema |-> <<>>]
NoEngine == [alerts |-> <<>>, runs |-> <<>>, columns |-> {}, order |-> <<>>]

\* --------------------------------------------------------------- the frame
ColumnNames == <<"c1", "c2", "c3", "c4", "c5">>
DTypes == {"Numeric", "Text", "Other"}

\* data_type.is_numeric()
is_numeric(dtype) == dtype = "Numeric"
\* data_type in (pl.String, pl.Categorical, pl.Enum)
is_string(dtype) == dtype = "Text"

\* What the data of one column looks like to the engine: how many of the R
\* cells are null and how many distinct values (null included) there are.  A
\* column holds one value in every row, or null in every row.
ColumnShapes(R) ==
    IF R = 0 THEN {[null_count |-> 0, n_unique |-> 0]}
    ELSE {[null_count |-> 0, n_unique |-> 1], [null_count |-> R, n_unique |-> 1]}

RowCounts == (0..MaxRows) \cup {CORRELATION_SAMPLE_SIZE, CORRELATION_SAMPLE_SIZE + 1}

\* The skew() of a column of R rows: None when it has no value, NaN (0/0) when
\* all its values are the same.
ConstantSkew(shape, R) == IF R = 0 \/ shape.null_count = R THEN None ELSE NaN

ColumnSpecs(R) ==
    {[dtype |-> t, null_count |-> s.null_count, n_unique |-> s.n_unique,
      skew |-> ConstantSkew(s, R)] :
        t \in DTypes, s \in ColumnShapes(R)}

\* The columns of R rows described by f, named in schema order.
ColumnsOf(f, n) ==
    [i \in 1..n |-> [name |-> ColumnNames[i], dtype |-> f[i].dtype,
                     null_count |-> f[i].null_count, n_unique |-> f[i].n_unique,
                     skew |-> f[i].skew]]

Methods == {"pearson", "spearman"}

\* The names of the columns that have no null and more than one value: the
\* ones with a variance other than zero.
Varying(cols) ==
    {cols[i].name : i \in {j \in 1..Len(cols) : cols[j].null_count = 0
                                                /\ cols[j].n_unique >= 2}}

Pairs(S) == {P \in SUBSET S : Cardinality(P) = 2}

\* No column of Frames varies, so no pair of them has a coefficient.
NoCoefficients == [m \in Methods |-> [P \in {} |-> 0]]

\* rows and columns are the frame; corr is what its data makes the engine's
\* corr() return for each pair of varying columns, in thousandths.
Frames ==
    UNION {UNION {{[rows |-> R, columns |-> ColumnsOf(f, n), corr |-> NoCoefficients] :
                   f \in [1..n -> ColumnSpecs(R)]} :
                  n \in 0..MaxCols} :
           R \in RowCounts}

NumericColumns(lf) == SelectSeq(lf.columns, LAMBDA c : is_numeric(c.dtype))
StringColumns(lf) == SelectSeq(lf.columns, LAMBDA c : is_string(c.dtype))
Names(cols) == {cols[i].name : i \in 1..Len(cols)}

\* ---------------------------------------------------------------- the record
Key(column, metric) == [column |-> column, metric |-> metric]
TableRowCountKey == Key("table", "row_count")
MetaKey == Key("", "_meta")
CorrelationsKey == Key("", "correlations")
AlertsKey == Key("", "alerts")

IntVal(n) == [int |-> n]
StatVal(column, metric) == [stat |-> metric, of |-> column]

Put(p, k, v) == [x \in DOMAIN p \cup {k} |-> IF x = k THEN v ELSE p[x]]
EmptyRecord == [x \in {} |-> 0]

Warning(text, column) == [text |-> text, column |-> column]
Fault(stage, site, column) == [stage |-> stage, site |-> site, column |-> column]
NoError == [type |-> "None", cause |-> "None"]

\* ------------------------------------------------------------ plan builders
UniversalStats == {"null_count", "n_unique"}
NumericStats == {"mean", "min", "max", "std", "skew", "kurtosis", "p25", "p50", "p75"}
StringStats == {"min", "max", "mean_length", "min_length", "max_length"}

\* ScalarStatsOf with the universal statistics requested only inside the two
\* type branches.
ScalarStatsOf_TypedOnly(dtype) ==
    IF is_numeric(dtype) THEN UniversalStats \cup NumericStats
    ELSE IF is_string(dtype) THEN UniversalStats \cup StringStats ELSE {}

\* The aliases one column contributes to the scalar plan.
ScalarStatsOf(dtype) ==
    UniversalStats
    \cup (IF is_numeric(dtype) THEN NumericStats
          ELSE IF is_string(dtype) THEN StringStats ELSE {})

\* build_scalar_plan: the aliases of the one-row result.
build_scalar_plan(lf) ==
    {TableRowCountKey}
    \cup UNION {{Key(lf.columns[i].name, m) : m \in ScalarStatsOf(lf.columns[i].dtype)} :
                i \in 1..Len(lf.columns)}

ColumnNamed(lf, name) ==
    CHOOSE c \in {lf.columns[i] : i \in 1..Len(lf.columns)} : c.name = name

\* scalar_plan.collect().rows(named=True)[0]
ScalarRow(lf) ==
    [k \in build_scalar_plan(lf) |->
        IF k = TableRowCountKey THEN IntVal(lf.rows)
        ELSE IF k.metric = "null_count" THEN IntVal(ColumnNamed(lf, k.column).null_count)
        ELSE IF k.metric = "n_unique" THEN IntVal(ColumnNamed(lf, k.column).n_unique)
        ELSE IF k.metric = "skew" THEN ColumnNamed(lf, k.column).skew
        ELSE StatVal(k.column, k.metric)]

\* build_histogram_plans: one plan per numeric column, in schema order.
build_histogram_plans(lf) == NumericColumns(lf)

\* build_top_k_plan with a plan for every column of the schema.
build_top_k_plan_AllColumns(lf) == lf.columns

\* build_top_k_plan: one plan per string/categorical column, in schema order.
build_top_k_plan(lf) == StringColumns(lf)

\* build_correlation_plan: the projection on the numeric columns.
build_correlation_plan(lf) == NumericColumns(lf)

\* ------------------------------------------------------------------- stages
Stages == <<"SCALAR", "HISTOGRAM", "TOPK", "CORRELATION", "DIAGNOSTICS">>

\* StageAfter with the alerts pass called before the correlation pass.
StageAfter_AlertsFirst(s) ==
    CASE s = "SCALAR" -> "HISTOGRAM"
      [] s = "HISTOGRAM" -> "TOPK"
      [] s = "TOPK" -> "DIAGNOSTICS"
      [] s = "DIAGNOSTICS" -> "CORRELATION"
      [] s = "CORRELATION" -> "FINALIZE"

\* The order of the calls in the body of profile().
StageAfter(s) ==
    CASE s = "SCALAR" -> "HISTOGRAM"
      [] s = "HISTOGRAM" -> "TOPK"
      [] s = "TOPK" -> "CORRELATION"
      [] s = "CORRELATION" -> "DIAGNOSTICS"
      [] s = "DIAGNOSTICS" -> "FINALIZE"

\* The top_k arguments told apart by the code: none asked for (head(0) is
\* empty), or as many as any column of ColumnShapes has distinct values.
TopKArgs == {0, 1}

Init ==
    /\ df \in Frames
    /\ top_k \in TopKArgs
    /\ pc = "SCALAR"
    /\ profile = EmptyRecord
    /\ warnings_list = <<>>
    /\ outcome = "running"
    /\ error = NoError
    /\ trace = <<>>
    /\ faults = <<>>
    /\ data = NoData
    /\ engine = NoEngine

\* _meta["correlation_method"]: None, "exact" or the sampled label.
NoMethod == [label |-> "None", n |-> 0]
ExactMethod == [label |-> "exact", n |-> 0]
\* f"sampled (n={CORRELATION_SAMPLE_SIZE})"
SampledMethod == [label |-> "sampled", n |-> CORRELATION_SAMPLE_SIZE]

\* The initial _meta of profile() (timestamp and version are constants of a run).
InitialMeta == [correlation_method |-> NoMethod, engine_time |-> "unset"]

\* run_scalar_pass with a handler that returns an empty record instead of raising.
run_scalar_pass_Swallow(lf, site) ==
    IF site = "none"
    THEN [raised |-> FALSE, profile |-> ScalarRow(lf), error |-> NoError]
    ELSE [raised |-> FALSE, profile |-> EmptyRecord, error |-> NoError]

\* _run_scalar_pass: the row of scalar statistics, or RuntimeError(...) from e
\* when the engine call `site` raised e.
run_scalar_pass(lf, site) ==
    IF site = "none"
    THEN [raised |-> FALSE, profile |-> ScalarRow(lf), error |-> NoError]
    ELSE [raised |-> TRUE, profile |-> EmptyRecord,
          error |-> [type |-> "RuntimeError", cause |-> site]]

\* PASS 1 and the metadata initialisation that follows it.
RunScalarPass ==
    /\ pc = "SCALAR"
    /\ trace' = Append(trace, "SCALAR")
    /\ \E site \in {"none", "build_scalar_plan", "collect", "rows"} :
        LET r == run_scalar_pass(df, site)
        IN /\ faults' = IF site = "none" THEN faults
                        ELSE Append(faults, Fault("SCALAR", site, ""))
           /\ IF r.raised
              THEN /\ error' = r.error
                   /\ outcome' = "raised"
                   /\ pc' = "ABORTED"
                   /\ UNCHANGED profile
              ELSE /\ profile' = Put(r.profile, MetaKey, InitialMeta)
                   /\ pc' = StageAfter("SCALAR")
                   /\ UNCHANGED <<outcome, error>>
    /\ UNCHANGED <<data, engine, df, top_k, warnings_list>>

\* The state a pass reads and writes: the record, the warnings, the fault history.
PassState(prof, warns, flts) == [profile |-> prof, warnings |-> warns, faults |-> flts]

\* An except-handler's warnings_list.append(...): the engine call `site` raised
\* (while working on `column`, if any) and the handler appends `warning`.
Warn(st, stage, site, column, warning) ==
    [st EXCEPT !.warnings = Append(@, warning),
               !.faults = Append(@, Fault(stage, site, column))]

\* ---------------------------------------------------------- PASS 2: histograms
\* HistogramKey writing under the scalar alias "{column}_max".
HistogramKey_Max(column_name) == Key(column_name, "max")

HistogramKey(column_name) == Key(column_name, "histogram")
HistogramVal(column_name) == [histogram_of |-> column_name]

RECURSIVE HistogramLoop_Silent(_, _, _, _, _)
\* HistogramLoop with a per-column handler that drops the failure.
HistogramLoop_Silent(plans, i, height, failing, st) ==
    IF i > Len(plans) THEN st
    ELSE LET column_name == plans[i].name
             step ==
                IF height > 0
                THEN IF column_name \in failing
                     THEN [st EXCEPT !.faults =
                              Append(@, Fault("HISTOGRAM", "hist", column_name))]
                     ELSE [st EXCEPT !.profile =
                              Put(@, Key(column_name, "histogram"), [histogram_of |-> column_name])]
                ELSE st
         IN HistogramLoop_Silent(plans, i + 1, height, failing, step)

RECURSIVE HistogramLoop_NoInnerTry(_, _, _, _, _)
\* HistogramLoop without the per-column try: the first failing hist() leaves
\* the loop for the handler of the whole pass.
HistogramLoop_NoInnerTry(plans, i, height, failing, st) ==
    IF i > Len(plans) THEN st
    ELSE LET column_name == plans[i].name
         IN IF height > 0 /\ column_name \in failing
            THEN Warn(st, "HISTOGRAM", "hist", column_name,
                      Warning("Histogram generation failed", ""))
            ELSE HistogramLoop_NoInnerTry(plans, i + 1, height, failing,
                    IF height > 0
                    THEN [st EXCEPT !.profile =
                             Put(@, Key(column_name, "histogram"),
                                 [histogram_of |-> column_name])]
                    ELSE st)

RECURSIVE HistogramLoop(_, _, _, _, _)
\* for eager_df in eager_dfs (from the i-th on): hist() raises for the columns
\* in `failing`; height is the row count of every collected frame.
HistogramLoop(plans, i, height, failing, st) ==
    IF i > Len(plans) THEN st
    ELSE LET column_name == plans[i].name
             step ==
                IF height > 0
                THEN IF column_name \in failing
                     THEN Warn(st, "HISTOGRAM", "hist", column_name,
                               Warning("Histogram generation failed for column", column_name))
                     ELSE [st EXCEPT !.profile =
                              Put(@, HistogramKey(column_name), HistogramVal(column_name))]
                ELSE st
         IN HistogramLoop(plans, i + 1, height, failing, step)

\* The engine calls of pass 2 that may raise, and where: "batch" is
\* build_histogram_plans or pl.collect_all (both end in the handler of the
\* whole pass), "hist" the hist() of the columns named.
HistogramScenarios(lf) ==
    LET plans == build_histogram_plans(lf)
    IN {[site |-> "batch", columns |-> {}]}
       \cup {[site |-> "hist", columns |-> F] :
             F \in (IF lf.rows > 0 THEN SUBSET Names(plans) ELSE {{}})}

run_histogram_pass(st, lf, scen) ==
    LET histogram_plans == build_histogram_plans(lf)
    IN IF scen.site = "batch"
       THEN Warn(st, "HISTOGRAM", scen.site, "",
                 Warning("Histogram generation failed", ""))
       ELSE IF histogram_plans # <<>>
            THEN HistogramLoop(histogram_plans, 1, lf.rows, scen.columns, st)
            ELSE st

RunHistogramPass ==
    /\ pc = "HISTOGRAM"
    /\ trace' = Append(trace, "HISTOGRAM")
    /\ \E scen \in HistogramScenarios(df) :
        LET r == run_histogram_pass(PassState(profile, warnings_list, faults), df, scen)
        IN /\ profile' = r.profile
           /\ warnings_list' = r.warnings
           /\ faults' = r.faults
    /\ pc' = StageAfter("HISTOGRAM")
    /\ UNCHANGED <<data, engine, df, top_k, outcome, error>>

\* -------------------------------------------------------------- PASS 3: top-K
\* The one value in the rows of a column of Frames: null, the number 0 in a
\* numeric column, the string "a" in any other.
CellValue(column, rows) ==
    IF column.null_count = rows THEN None
    ELSE IF is_numeric(column.dtype) THEN Number(0) ELSE Str("a")
\* pl.col(column_name).cast(pl.String): null stays null, a number becomes the
\* string that spells it.
cast_String(v) ==
    IF v.kind = "number" THEN Str(IF v.milli = 0 THEN "0" ELSE "7") ELSE v
TopKKey(column_name) == Key(column_name, "top_k")
\* The {value, count} list of a column, by its number of entries: a column of
\* Frames holds one value in all its rows (None, or a string that is no number).
TopKVal(column, rows, entries) ==
    [items |-> [i \in 1..entries |->
                   [value |-> cast_String(CellValue(column, rows)), count |-> rows]]]

\* group_by("value").len().sort().head(k): one row per distinct value (null
\* included), at most k of them.
TopKHeight(column, k) == Min(k, column.n_unique)

RECURSIVE TopKLoop(_, _, _, _, _, _)
\* for plan in top_k_plans (from the i-th on); plan.collect() raises at failAt.
TopKLoop(plans, i, rows, k, failAt, st) ==
    IF i > Len(plans) THEN st
    ELSE IF i = failAt
         THEN Warn(st, "TOPK", "collect", plans[i].name,
                   Warning("Top-K generation failed", ""))
         ELSE LET column_name == plans[i].name
                  height == TopKHeight(plans[i], k)
                  step == IF height > 0
                          THEN [st EXCEPT !.profile =
                                   Put(@, TopKKey(column_name), TopKVal(plans[i], rows, height))]
                          ELSE st
              IN TopKLoop(plans, i + 1, rows, k, failAt, step)

TopKScenarios(lf) ==
    {[site |-> "build_top_k_plan", index |-> 0], [site |-> "none", index |-> 0]}
    \cup {[site |-> "collect", index |-> i] : i \in 1..Len(build_top_k_plan(lf))}

\* run_top_k_pass with a handler that drops the failure (except: pass).
run_top_k_pass_Silent(st, lf, k, scen) ==
    IF scen.site = "build_top_k_plan"
    THEN [st EXCEPT !.faults = Append(@, Fault("TOPK", scen.site, ""))]
    ELSE TopKLoop(build_top_k_plan(lf), 1, lf.rows, k, scen.index, st)

run_top_k_pass(st, lf, k, scen) ==
    IF scen.site = "build_top_k_plan"
    THEN Warn(st, "TOPK", scen.site, "", Warning("Top-K generation failed", ""))
    ELSE TopKLoop(build_top_k_plan(lf), 1, lf.rows, k, scen.index, st)

RunTopKPass ==
    /\ pc = "TOPK"
    /\ trace' = Append(trace, "TOPK")
    /\ \E scen \in TopKScenarios(df) :
        LET r == run_top_k_pass(PassState(profile, warnings_list, faults), df, top_k, scen)
        IN /\ profile' = r.profile
           /\ warnings_list' = r.warnings
           /\ faults' = r.faults
    /\ pc' = StageAfter("TOPK")
    /\ UNCHANGED <<data, engine, df, top_k, outcome, error>>

\* ------------------------------------------------------- PASS 4: correlations
\* DataFrame.corr() (numpy.corrcoef) on the rows left: the coefficient of two
\* varying columns, 1.0 for a varying column and itself, and NaN (0/0) wherever
\* a column of zero variance is involved, its own diagonal entry included.
corr(method, plan, coefficients) ==
    [a \in Names(plan) |-> [b \in Names(plan) |->
        IF a \notin Varying(plan) \/ b \notin Varying(plan) THEN NaN
        ELSE IF a = b THEN Number(1000)
        ELSE Number(coefficients[method][{a, b}])]]

\* fill_nan(None)
fill_nan(v) == IF v.kind = "nan" THEN None ELSE v

\* The to_dicts() of a correlation matrix: one row per column, in column
\* order; "column" is the row's label, cells its entries by column name.
MatrixVal(method, plan, coefficients) ==
    [rows |-> [i \in 1..Len(plan) |->
                  [column |-> plan[i].name,
                   cells |-> [b \in Names(plan) |->
                                 fill_nan(corr(method, plan, coefficients)[plan[i].name][b])]]]]

\* correlation_df.drop_nulls().height: a row survives when no numeric column is
\* null in it (a column is either free of nulls or null throughout).
DropNullsHeight(plan, fetched) ==
    IF \E i \in 1..Len(plan) : plan[i].null_count > 0 THEN 0 ELSE fetched

\* profile.get("table_row_count", 0)
GetRowCount(prof) ==
    IF TableRowCountKey \in DOMAIN prof THEN prof[TableRowCountKey].int ELSE 0

\* The two guarded matrix computations, after profile["correlations"] = {}.
ComputeMatrices(st, plan, coefficients, scen) ==
    LET st0 == [st EXCEPT !.profile = Put(@, CorrelationsKey, EmptyRecord)]
        st1 == IF scen.pearson
               THEN Warn(st0, "CORRELATION", "pearson", "",
                         Warning("Correlation (pearson) failed", ""))
               ELSE [st0 EXCEPT !.profile[CorrelationsKey] =
                        Put(@, "pearson", MatrixVal("pearson", plan, coefficients))]
    IN IF scen.spearman
       THEN Warn(st1, "CORRELATION", "spearman", "",
                 Warning("Correlation (spearman) failed", ""))
       ELSE [st1 EXCEPT !.profile[CorrelationsKey] =
                Put(@, "spearman", MatrixVal("spearman", plan, coefficients))]

\* The height of correlation_df after the fetch: sample(n=CORRELATION_SAMPLE_SIZE,
\* with_replacement=False) of the collected rows, or all of them.
FetchedRows(prof, lf) ==
    IF GetRowCount(prof) > CORRELATION_SAMPLE_SIZE
    THEN CORRELATION_SAMPLE_SIZE ELSE lf.rows

\* The rows left in correlation_df after the fetch (sampled or full) and drop_nulls().
CorrelationHeight(prof, lf) ==
    DropNullsHeight(build_correlation_plan(lf), FetchedRows(prof, lf))

\* The engine calls of pass 4 that may raise, and where: "fetch" is any call
\* before the matrices (build_correlation_plan, collect_schema, collect, sample,
\* drop_nulls: all end in the handler of the whole pass); pearson and spearman
\* tell whether that corr() raises, when it is reached.
CorrelationScenarios(prof, lf) ==
    LET reached == Len(build_correlation_plan(lf)) > 1 /\ CorrelationHeight(prof, lf) > 0
    IN {[site |-> "fetch", pearson |-> FALSE, spearman |-> FALSE]}
       \cup {[site |-> "none", pearson |-> p, spearman |-> s] :
             p \in (IF reached THEN BOOLEAN ELSE {FALSE}),
             s \in (IF reached THEN BOOLEAN ELSE {FALSE})}

\* run_correlation_pass with profile["correlations"] = {} written before the fetch.
run_correlation_pass_EarlyKey(st, lf, scen) ==
    LET correlation_plan == build_correlation_plan(lf)
        early == [st EXCEPT !.profile = Put(@, CorrelationsKey, EmptyRecord)]
    IN IF scen.site = "fetch"
       THEN Warn(IF Len(correlation_plan) > 1 THEN early ELSE st,
                 "CORRELATION", scen.site, "",
                 Warning("Correlation generation failed", ""))
       ELSE IF Len(correlation_plan) > 1
            THEN LET row_count == GetRowCount(st.profile)
                     method_used == IF row_count > CORRELATION_SAMPLE_SIZE
                                    THEN SampledMethod ELSE ExactMethod
                     height == CorrelationHeight(st.profile, lf)
                     st1 == IF height > 0 /\ Len(correlation_plan) > 1
                            THEN ComputeMatrices(st, correlation_plan, lf.corr, scen)
                            ELSE st
                 IN [st1 EXCEPT !.profile[MetaKey].correlation_method = method_used]
            ELSE st

\* run_correlation_pass sampling from CORRELATION_SAMPLE_SIZE rows on (>=).
run_correlation_pass_SampleAtThreshold(st, lf, scen) ==
    LET correlation_plan == build_correlation_plan(lf)
    IN IF scen.site = "fetch"
       THEN Warn(st, "CORRELATION", scen.site, "",
                 Warning("Correlation generation failed", ""))
       ELSE IF Len(correlation_plan) > 1
            THEN LET row_count == GetRowCount(st.profile)
                     method_used == IF row_count >= CORRELATION_SAMPLE_SIZE
                                    THEN SampledMethod ELSE ExactMethod
                     height == CorrelationHeight(st.profile, lf)
                     st1 == IF height > 0 /\ Len(correlation_plan) > 1
                            THEN ComputeMatrices(st, correlation_plan, lf.corr, scen)
                            ELSE st
                 IN [st1 EXCEPT !.profile[MetaKey].correlation_method = method_used]
            ELSE st

run_correlation_pass(st, lf, scen) ==
    LET correlation_plan == build_correlation_plan(lf)
    IN IF scen.site = "fetch"
       THEN Warn(st, "CORRELATION", scen.site, "",
                 Warning("Correlation generation failed", ""))
       ELSE IF Len(correlation_plan) > 1
            THEN LET row_count == GetRowCount(st.profile)
                     method_used == IF row_count > CORRELATION_SAMPLE_SIZE
                                    THEN SampledMethod ELSE ExactMethod
                     height == CorrelationHeight(st.profile, lf)
                     st1 == IF height > 0 /\ Len(correlation_plan) > 1
                            THEN ComputeMatrices(st, correlation_plan, lf.corr, scen)
                            ELSE st
                 IN [st1 EXCEPT !.profile[MetaKey].correlation_method = method_used]
            ELSE st

RunCorrelationPass ==
    /\ pc = "CORRELATION"
    /\ trace' = Append(trace, "CORRELATION")
    /\ \E scen \in CorrelationScenarios(profile, df) :
        LET r == run_correlation_pass(PassState(profile, warnings_list, faults), df, scen)
        IN /\ profile' = r.profile
           /\ warnings_list' = r.warnings
           /\ faults' = r.faults
    /\ pc' = StageAfter("CORRELATION")
    /\ UNCHANGED <<data, engine, df, top_k, outcome, error>>

\* ------------------------------------------------------- PASS 5: diagnostics
Ratio(num, den) == [num |-> num, den |-> den]
NoValue == Ratio(0, 0)
\* Alert(column=..., alert_type=..., level=..., value=...); the column is <<c>>
\* for a column alert and <<a, b>> for the label "a <-> b".
Alert(column, alert_type, level, value) ==
    [column |-> <<column>>, type |-> alert_type, level |-> level, value |-> value]
PairAlert(primary, comparison, alert_type, level, value) ==
    [column |-> <<primary, comparison>>, type |-> alert_type, level |-> level,
     value |-> value]

\* DiagnosticConfig (the float thresholds in percent or in thousandths)
NULL_CRITICAL_PERCENT == 95
NULL_WARNING_PERCENT == 50
SKEW_THRESHOLD_MILLI == 2000
ZERO_INFLATED_PERCENT == 10
HIGH_CARDINALITY_THRESHOLD == 10000
HIGH_CORRELATION_MILLI == 990
ID_UNIQUENESS_PERCENT == 99
MIN_ROWS_FOR_ID_CHECK == 100
POSSIBLE_NUMERIC_CHECK_COUNT == 5

Abs(n) == IF n < 0 THEN -n ELSE n

\* profile.get(key): the integer statistic under a key, or -1 for None.
GetInt(prof, key, default) == IF key \in DOMAIN prof THEN prof[key].int ELSE default

\* check_nulls with the critical threshold reached at 95% (>=).
check_nulls_AtThreshold(prof, row_count, column_name) ==
    LET null_count == GetInt(prof, Key(column_name, "null_count"), 0)
    IN IF null_count * 100 >= NULL_CRITICAL_PERCENT * row_count
       THEN <<Alert(column_name, "EMPTY_COLUMN", "CRITICAL", Ratio(null_count, row_count))>>
       ELSE IF null_count * 100 > NULL_WARNING_PERCENT * row_count
            THEN <<Alert(column_name, "HIGH_NULLS", "CRITICAL", Ratio(null_count, row_count))>>
            ELSE <<>>

check_nulls(prof, row_count, column_name) ==
    LET null_count == GetInt(prof, Key(column_name, "null_count"), 0)
    IN IF null_count * 100 > NULL_CRITICAL_PERCENT * row_count
       THEN <<Alert(column_name, "EMPTY_COLUMN", "CRITICAL", Ratio(null_count, row_count))>>
       ELSE IF null_count * 100 > NULL_WARNING_PERCENT * row_count
            THEN <<Alert(column_name, "HIGH_NULLS", "CRITICAL", Ratio(null_count, row_count))>>
            ELSE <<>>

\* check_constant without the row_count > MIN_ROWS_FOR_ID_CHECK condition.
check_constant_AnySize(prof, row_count, column_name) ==
    LET n_unique == GetInt(prof, Key(column_name, "n_unique"), -1)
    IN (IF n_unique = 1
        THEN <<Alert(column_name, "CONSTANT", "CRITICAL", Ratio(1, 1))>> ELSE <<>>)
       \o (IF /\ n_unique # -1 /\ n_unique # 0
              /\ n_unique * 100 > row_count * ID_UNIQUENESS_PERCENT
           THEN <<Alert(column_name, "ALL_DISTINCT", "INFO", Ratio(n_unique, 1))>>
           ELSE <<>>)

\* check_constant without the n_unique > row_count * ID_UNIQUENESS_THRESHOLD
\* condition.
check_constant_NoRatio(prof, row_count, column_name) ==
    LET n_unique == GetInt(prof, Key(column_name, "n_unique"), -1)
    IN (IF n_unique = 1
        THEN <<Alert(column_name, "CONSTANT", "CRITICAL", Ratio(1, 1))>> ELSE <<>>)
       \o (IF /\ n_unique # -1 /\ n_unique # 0
              /\ row_count > MIN_ROWS_FOR_ID_CHECK
           THEN <<Alert(column_name, "ALL_DISTINCT", "INFO", Ratio(n_unique, 1))>>
           ELSE <<>>)

check_constant(prof, row_count, column_name) ==
    LET n_unique == GetInt(prof, Key(column_name, "n_unique"), -1)
    IN (IF n_unique = 1
        THEN <<Alert(column_name, "CONSTANT", "CRITICAL", Ratio(1, 1))>> ELSE <<>>)
       \o (IF /\ n_unique # -1 /\ n_unique # 0
              /\ row_count > MIN_ROWS_FOR_ID_CHECK
              /\ n_unique * 100 > row_count * ID_UNIQUENESS_PERCENT
           THEN <<Alert(column_name, "ALL_DISTINCT", "INFO", Ratio(n_unique, 1))>>
           ELSE <<>>)

\* check_cardinality with n_unique <= self.row_count as its last condition.
check_cardinality_UpToRows(prof, row_count, column_name) ==
    LET n_unique == GetInt(prof, Key(column_name, "n_unique"), -1)
        is_string_hint == Key(column_name, "mean") \notin DOMAIN prof
    IN IF /\ is_string_hint
          /\ n_unique # -1 /\ n_unique # 0
          /\ n_unique > HIGH_CARDINALITY_THRESHOLD
          /\ n_unique <= row_count
       THEN <<Alert(column_name, "HIGH_CARDINALITY", "WARNING", Ratio(n_unique, 1))>>
       ELSE <<>>

check_cardinality(prof, row_count, column_name) ==
    LET n_unique == GetInt(prof, Key(column_name, "n_unique"), -1)
        is_string_hint == Key(column_name, "mean") \notin DOMAIN prof
    IN IF /\ is_string_hint
          /\ n_unique # -1 /\ n_unique # 0
          /\ n_unique > HIGH_CARDINALITY_THRESHOLD
          /\ n_unique < row_count
       THEN <<Alert(column_name, "HIGH_CARDINALITY", "WARNING", Ratio(n_unique, 1))>>
       ELSE <<>>

\* ExceedsSkewThreshold written as not (abs(skew) <= threshold), which is True
\* for NaN.
ExceedsSkewThreshold_NotWithin(skew) ==
    ~(skew.kind = "number" /\ Abs(skew.milli) <= SKEW_THRESHOLD_MILLI)

\* abs(skew) > threshold: False for NaN, as every comparison with NaN is.
ExceedsSkewThreshold(skew) ==
    skew.kind = "number" /\ Abs(skew.milli) > SKEW_THRESHOLD_MILLI

check_skew(prof, column_name) ==
    LET skew == IF Key(column_name, "skew") \in DOMAIN prof
                THEN prof[Key(column_name, "skew")] ELSE None
    IN IF skew.kind # "None" /\ ExceedsSkewThreshold(skew)
       THEN <<Alert(column_name, "SKEWED", "WARNING", Ratio(skew.milli, 1000))>>
       ELSE <<>>

\* profile.get(f"{column_name}_top_k"): the list, or <<>> for None.
GetTopK(prof, column_name) ==
    IF Key(column_name, "top_k") \in DOMAIN prof
    THEN prof[Key(column_name, "top_k")].items ELSE <<>>

\* item["value"] == 0 or item["value"] == 0.0
IsZero(v) == v.kind = "number" /\ v.milli = 0

RECURSIVE ZeroScan_NoBreak(_, _, _, _)
\* ZeroScan without the break: every zero-valued item is looked at.
ZeroScan_NoBreak(top_k_list, i, row_count, column_name) ==
    IF i > Len(top_k_list) THEN <<>>
    ELSE (IF IsZero(top_k_list[i].value)
             /\ top_k_list[i].count * 100 > ZERO_INFLATED_PERCENT * row_count
          THEN <<Alert(column_name, "ZERO_INFLATED", "WARNING",
                       Ratio(top_k_list[i].count, row_count))>>
          ELSE <<>>)
         \o ZeroScan_NoBreak(top_k_list, i + 1, row_count, column_name)

RECURSIVE ZeroScan(_, _, _, _)
\* for item in top_k (from the i-th on): the first zero-valued item decides,
\* and the break after it ends the loop.
ZeroScan(top_k_list, i, row_count, column_name) ==
    IF i > Len(top_k_list) THEN <<>>
    ELSE IF IsZero(top_k_list[i].value)
         THEN LET zero_count == top_k_list[i].count
              IN IF zero_count * 100 > ZERO_INFLATED_PERCENT * row_count
                 THEN <<Alert(column_name, "ZERO_INFLATED", "WARNING",
                              Ratio(zero_count, row_count))>>
                 ELSE <<>>
         ELSE ZeroScan(top_k_list, i + 1, row_count, column_name)

check_zeros(prof, row_count, column_name) ==
    ZeroScan(GetTopK(prof, column_name), 1, row_count, column_name)

\* float(value) returns: for a number, and for the strings that spell one.
FloatTexts == {"7", "0"}
float_parses(v) ==
    v.kind \in {"number", "nan"} \/ (v.kind = "str" /\ v.text \in FloatTexts)

\* check_possible_numeric taking the first 5 values that are not None, instead
\* of the values that are not None among the first 5.
check_possible_numeric_FilterFirst(prof, column_name) ==
    LET top_k_list == GetTopK(prof, column_name)
        non_null == SelectSeq(top_k_list, LAMBDA item : item.value.kind # "None")
        sample_values == SubSeq(non_null, 1, Min(Len(non_null), POSSIBLE_NUMERIC_CHECK_COUNT))
    IN IF Key(column_name, "mean") \in DOMAIN prof THEN <<>>
       ELSE IF top_k_list = <<>> THEN <<>>
       ELSE IF sample_values = <<>> THEN <<>>
       ELSE IF \A i \in 1..Len(sample_values) : float_parses(sample_values[i].value)
            THEN <<Alert(column_name, "POSSIBLE_NUMERIC", "INFO", NoValue)>>
            ELSE <<>>

check_possible_numeric(prof, column_name) ==
    LET top_k_list == GetTopK(prof, column_name)
        head == SubSeq(top_k_list, 1, Min(Len(top_k_list), POSSIBLE_NUMERIC_CHECK_COUNT))
        sample_values == SelectSeq(head, LAMBDA item : item.value.kind # "None")
    IN IF Key(column_name, "mean") \in DOMAIN prof THEN <<>>
       ELSE IF top_k_list = <<>> THEN <<>>
       ELSE IF sample_values = <<>> THEN <<>>
       ELSE IF \A i \in 1..Len(sample_values) : float_parses(sample_values[i].value)
            THEN <<Alert(column_name, "POSSIBLE_NUMERIC", "INFO", NoValue)>>
            ELSE <<>>

RECURSIVE CorrelationScan_NoPairs(_, _, _, _, _)
\* CorrelationScan without checked_pairs: every cell off the diagonal is looked at.
CorrelationScan_NoPairs(rows, i, j, checked_pairs, alerts) ==
    IF i > Len(rows) THEN alerts
    ELSE IF j > Len(rows) \/ rows[i].column = ""
         THEN CorrelationScan_NoPairs(rows, i + 1, 1, checked_pairs, alerts)
    ELSE LET primary_column == rows[i].column
             comparison_column == rows[j].column
             value == rows[i].cells[comparison_column]
         IN IF comparison_column = primary_column \/ value.kind = "None"
            THEN CorrelationScan_NoPairs(rows, i, j + 1, checked_pairs, alerts)
            ELSE IF value.kind = "number" /\ Abs(value.milli) > HIGH_CORRELATION_MILLI
                 THEN CorrelationScan_NoPairs(rows, i, j + 1, checked_pairs,
                          Append(alerts,
                                 PairAlert(primary_column, comparison_column,
                                           "HIGH_CORRELATION", "WARNING",
                                           Ratio(value.milli, 1000))))
                 ELSE CorrelationScan_NoPairs(rows, i, j + 1, checked_pairs, alerts)

RECURSIVE CorrelationScan(_, _, _, _, _)
\* for row in correlation_matrix (from the i-th on), for comparison_column,
\* value in row.items() (from the j-th cell on): the cells come in the order of
\* the matrix columns, which is the order of its rows.
CorrelationScan(rows, i, j, checked_pairs, alerts) ==
    IF i > Len(rows) THEN alerts
    ELSE IF j > Len(rows) \/ rows[i].column = ""
         THEN CorrelationScan(rows, i + 1, 1, checked_pairs, alerts)
    ELSE LET primary_column == rows[i].column
             comparison_column == rows[j].column
             value == rows[i].cells[comparison_column]
             pair == {primary_column, comparison_column}
         IN IF \/ comparison_column = primary_column
               \/ value.kind = "None"
               \/ pair \in checked_pairs
            THEN CorrelationScan(rows, i, j + 1, checked_pairs, alerts)
            ELSE IF value.kind = "number" /\ Abs(value.milli) > HIGH_CORRELATION_MILLI
                 THEN CorrelationScan(rows, i, j + 1, checked_pairs \cup {pair},
                          Append(alerts,
                                 PairAlert(primary_column, comparison_column,
                                           "HIGH_CORRELATION", "WARNING",
                                           Ratio(value.milli, 1000))))
                 ELSE CorrelationScan(rows, i, j + 1, checked_pairs, alerts)

\* The alerts of one method's matrix, if the record has it.
MethodAlerts(prof, method) ==
    IF CorrelationsKey \in DOMAIN prof /\ method \in DOMAIN prof[CorrelationsKey]
    THEN CorrelationScan(prof[CorrelationsKey][method].rows, 1, 1, {}, <<>>)
    ELSE <<>>

check_correlations(prof) == MethodAlerts(prof, "pearson") \o MethodAlerts(prof, "spearman")

\* The column names run() discovers from the keys ending in "_null_count".
DiscoveredColumns(prof) == {k.column : k \in {x \in DOMAIN prof : x.metric = "null_count"}}

\* The orders in which a Python set of the given names may be iterated.
IterationOrders(S) ==
    {f \in [1..Cardinality(S) -> S] : \A i, j \in DOMAIN f : i # j => f[i] # f[j]}

RECURSIVE ColumnChecks_UntilFirstAlert(_, _, _, _)
\* ColumnChecks leaving the loop after the first column that raised an alert.
ColumnChecks_UntilFirstAlert(prof, row_count, order, i) ==
    IF i > Len(order) THEN <<>>
    ELSE LET found == check_nulls(prof, row_count, order[i])
                      \o check_constant(prof, row_count, order[i])
                      \o check_cardinality(prof, row_count, order[i])
                      \o check_skew(prof, order[i])
                      \o check_zeros(prof, row_count, order[i])
                      \o check_possible_numeric(prof, order[i])
         IN IF found # <<>> THEN found
            ELSE ColumnChecks_UntilFirstAlert(prof, row_count, order, i + 1)

RECURSIVE ColumnChecks(_, _, _, _)
\* for col in columns: the six per-column checks.
ColumnChecks(prof, row_count, order, i) ==
    IF i > Len(order) THEN <<>>
    ELSE check_nulls(prof, row_count, order[i])
         \o check_constant(prof, row_count, order[i])
         \o check_cardinality(prof, row_count, order[i])
         \o check_skew(prof, order[i])
         \o check_zeros(prof, row_count, order[i])
         \o check_possible_numeric(prof, order[i])
         \o ColumnChecks(prof, row_count, order, i + 1)

\* run() without the row_count == 0 guard.
DiagnosticEngine_run_NoGuard(prof, order) ==
    LET row_count == GetRowCount(prof)
    IN ColumnChecks(prof, row_count, order, 1) \o check_correlations(prof)

\* DiagnosticEngine(profile).run(), the column set iterated in `order`.
DiagnosticEngine_run(prof, order) ==
    LET row_count == GetRowCount(prof)
    IN IF row_count = 0 THEN <<>>
       ELSE ColumnChecks(prof, row_count, order, 1) \o check_correlations(prof)

\* Where pass 5 may raise: in the rules of run().  With a row count of 0 run()
\* returns before the first rule and nothing is left that could raise.
AlertScenarios(prof) == IF GetRowCount(prof) = 0 THEN {"none"} ELSE {"none", "run"}

run_alerts_pass(st, scen, order) ==
    IF scen = "run"
    THEN Warn(st, "DIAGNOSTICS", scen, "", Warning("Alert generation failed", ""))
    ELSE [st EXCEPT !.profile = Put(@, AlertsKey, DiagnosticEngine_run(st.profile, order))]

RunAlertsPass ==
    /\ pc = "DIAGNOSTICS"
    /\ trace' = Append(trace, "DIAGNOSTICS")
    /\ \E scen \in AlertScenarios(profile) :
       \E order \in IterationOrders(DiscoveredColumns(profile)) :
        LET r == run_alerts_pass(PassState(profile, warnings_list, faults), scen, order)
        IN /\ profile' = r.profile
           /\ warnings_list' = r.warnings
           /\ faults' = r.faults
    /\ pc' = StageAfter("DIAGNOSTICS")
    /\ UNCHANGED <<data, engine, df, top_k, outcome, error>>

\* profile["_meta"]["engine_time"] = ...; return profile
Finalize ==
    /\ pc = "FINALIZE"
    /\ profile' = [profile EXCEPT ![MetaKey].engine_time = "set"]
    /\ outcome' = "returned"
    /\ pc' = "DONE"
    /\ UNCHANGED <<data, engine, df, top_k, warnings_list, error, trace, faults>>

Next ==
    \/ RunScalarPass
    \/ RunHistogramPass
    \/ RunTopKPass
    \/ RunCorrelationPass
    \/ RunAlertsPass
    \/ Finalize

Spec == Init /\ [][Next]_vars

\* ------------------------------------------- the correlation pass on varying data
\* Numeric columns of CORRELATION_SAMPLE_SIZE rows: one value throughout, two
\* values (a variance other than zero), or null throughout.
CorrColumnSpecs ==
    {[dtype |-> "Numeric", null_count |-> 0, n_unique |-> 1, skew |-> NaN],
     [dtype |-> "Numeric", null_count |-> 0, n_unique |-> 2, skew |-> Number(0)],
     [dtype |-> "Numeric", null_count |-> CORRELATION_SAMPLE_SIZE, n_unique |-> 1,
      skew |-> None]}

\* The coefficients (in thousandths) corr() may return for two varying
\* columns: on both sides of HIGH_CORRELATION_THRESHOLD, and of either sign.
Coefficients == {-991, 990, 991}

CorrFrames ==
    UNION {UNION {{[rows |-> CORRELATION_SAMPLE_SIZE, columns |-> ColumnsOf(f, n),
                    corr |-> c] :
                   c \in [Methods -> [Pairs(Varying(ColumnsOf(f, n))) -> Coefficients]]} :
                  f \in [1..n -> CorrColumnSpecs]} :
           n \in 0..MaxCols}

\* The record after a scalar pass and a histogram pass without failure.
AfterHistograms(lf) ==
    run_histogram_pass(PassState(Put(ScalarRow(lf), MetaKey, InitialMeta), <<>>, <<>>),
                       lf, [site |-> "hist", columns |-> {}]).profile

\* profile() about to run the correlation pass, the three passes before it
\* having succeeded on a frame of numeric columns.
MatrixInit ==
    /\ df \in CorrFrames
    /\ top_k \in TopKArgs
    /\ pc = "CORRELATION"
    /\ profile = AfterHistograms(df)
    /\ warnings_list = <<>>
    /\ outcome = "running"
    /\ error = NoError
    /\ trace = <<"SCALAR", "HISTOGRAM", "TOPK">>
    /\ faults = <<>>
    /\ data = NoData
    /\ engine = NoEngine

MatrixNext ==
    \/ RunCorrelationPass
    \/ RunAlertsPass
    \/ Finalize

MatrixSpec == MatrixInit /\ [][MatrixNext]_vars

\* ----------------------------------- the diagnostic engine on a record of its own
\* DiagnosticEngine(profile).run() takes any record of the documented keys (the
\* unit tests write theirs by hand).  A record is described by its row count
\* and, for each column, the facts the engine reads: null_count, n_unique,
\* whether "{col}_mean" is there (numeric), the skew and the top-K list.
Facts(null_count, n_unique, numeric, skew, top_k_list) ==
    [null_count |-> null_count, n_unique |-> n_unique, numeric |-> numeric,
     skew |-> skew, top_k |-> top_k_list]

\* The record of row_count rows whose columns are the domain of cols.
RecordOf(row_count, cols) ==
    LET keys == {TableRowCountKey}
                \cup {Key(c, m) : c \in DOMAIN cols, m \in {"null_count", "n_unique"}}
                \cup {Key(c, m) : c \in {x \in DOMAIN cols : cols[x].numeric},
                                  m \in {"mean", "skew"}}
                \cup {Key(c, "top_k") : c \in {x \in DOMAIN cols : cols[x].top_k # <<>>}}
    IN [k \in keys |->
           IF k = TableRowCountKey THEN IntVal(row_count)
           ELSE IF k.metric = "null_count" THEN IntVal(cols[k.column].null_count)
           ELSE IF k.metric = "n_unique" THEN IntVal(cols[k.column].n_unique)
           ELSE IF k.metric = "skew" THEN cols[k.column].skew
           ELSE IF k.metric = "top_k" THEN [items |-> cols[k.column].top_k]
           ELSE StatVal(k.column, k.metric)]

\* Row counts on both sides of MIN_ROWS_FOR_ID_CHECK and HIGH_CARDINALITY_THRESHOLD.
EngineRowCounts == {0, 1, 20, 100, 101, 200, 10002}

\* Counts on both sides of the null thresholds, and of the distinctness ones.
NullCountsFor(R) ==
    {0, R \div 2, R \div 2 + 1, (95 * R) \div 100, (95 * R) \div 100 + 1, R} \cap (0..R)
UniquesFor(R) ==
    IF R = 0 THEN {0}
    ELSE {1, (99 * R) \div 100, (99 * R) \div 100 + 1, R - 1, R,
          HIGH_CARDINALITY_THRESHOLD, HIGH_CARDINALITY_THRESHOLD + 1} \cap (1..R)
SkewsFor(numeric) ==
    IF numeric
    THEN {None, NaN, Number(SKEW_THRESHOLD_MILLI), Number(SKEW_THRESHOLD_MILLI + 1),
          Number(-SKEW_THRESHOLD_MILLI - 1)}
    ELSE {None}

\* Columns without a top-K list.
CountFacts(R) ==
    UNION {{Facts(n, u, numeric, skew, <<>>) :
               n \in NullCountsFor(R), u \in UniquesFor(R), skew \in SkewsFor(numeric)} :
           numeric \in BOOLEAN}

Item(value, count) == [value |-> value, count |-> count]
Lists(S, n) == UNION {[1..k -> S] : k \in 0..n}

\* Top-K lists of 1000 rows: up to MaxListLen values that are None, spell a
\* number or do not; and shorter ones with zeros of several counts in them.
ParseItems == {Item(None, 50), Item(Str("7"), 50), Item(Str("a"), 50)}
ZeroItems ==
    {Item(Number(0), 150), Item(Number(0), 100), Item(Number(0), 50),
     Item(Str("0"), 150), Item(Number(5000), 150), Item(None, 150)}
TopKLists == Lists(ParseItems, MaxListLen) \cup Lists(ZeroItems, MaxListLen \div 2)
ListFacts ==
    {Facts(0, 2, numeric, IF numeric THEN Number(0) ELSE None, l) :
        numeric \in BOOLEAN, l \in TopKLists \ {<<>>}}

\* Columns of 20 rows that raise different alerts, to put several in a record.
MixFacts ==
    {Facts(0, 2, FALSE, None, <<>>),
     Facts(11, 2, FALSE, None, <<>>),
     Facts(0, 1, TRUE, NaN, <<>>),
     Facts(0, 2, TRUE, Number(SKEW_THRESHOLD_MILLI + 1), <<>>),
     Facts(0, 2, FALSE, None, <<Item(Str("7"), 10), Item(Str("0"), 10)>>)}

EngineRecords ==
    UNION {{RecordOf(R, [c \in {"c1"} |-> f]) : f \in CountFacts(R)} : R \in EngineRowCounts}
    \cup {RecordOf(1000, [c \in {"c1"} |-> f]) : f \in ListFacts}
    \cup {RecordOf(20, cols) : cols \in [{"c1", "c2", "c3"} -> MixFacts]}

EngineInit ==
    /\ df = [rows |-> 0, columns |-> <<>>, corr |-> NoCoefficients]
    /\ top_k = 0
    /\ pc = "ENGINE"
    /\ profile \in EngineRecords
    /\ warnings_list = <<>>
    /\ outcome = "running"
    /\ error = NoError
    /\ trace = <<>>
    /\ faults = <<>>
    /\ data = NoData
    /\ engine = NoEngine

\* alerts = DiagnosticEngine(profile).run(), kept under "alerts" as
\* _run_alerts_pass keeps it.
EngineRun ==
    /\ pc = "ENGINE"
    /\ \E order \in IterationOrders(DiscoveredColumns(profile)) :
           profile' = Put(profile, AlertsKey, DiagnosticEngine_run(profile, order))
    /\ pc' = "ENGINE_DONE"
    /\ UNCHANGED <<data, engine, df, top_k, warnings_list, outcome, error, trace, faults>>

EngineNext == EngineRun

EngineSpec == EngineInit /\ [][EngineNext]_vars

\* ------------------------------------------------ complex-type preprocessing
\* Profiler.__init__ on a frame whose schema has nested columns.  A column
\* name is the sequence of the words that "_" joins ("a_len" is <<"a", "len">>),
\* so that f"{column_name}_{field.name}" is the concatenation of two names.
MaxSchema == 2

DType(kind, fields) == [kind |-> kind, fields |-> fields]
Int64 == DType("Int64", <<>>)
UInt32 == DType("UInt32", <<>>)
ListType == DType("List", <<>>)
ArrayType == DType("Array", <<>>)
Struct(fields) == DType("Struct", fields)
Field(name, dtype) == [name |-> name, dtype |-> dtype]

DistinctNames(s) == \A i, j \in 1..Len(s) : s[i].name = s[j].name => i = j

\* The types of the fields of a struct: a scalar, a list, a struct again.
FieldNames == {<<"b">>, <<"len">>}
FieldTypes == {Int64, ListType, Struct(<<Field(<<"b">>, Int64)>>)}
FieldLists ==
    {fs \in UNION {[1..n -> {Field(name, t) : name \in FieldNames, t \in FieldTypes}] :
                      n \in 0..Cardinality(FieldNames)} : DistinctNames(fs)}
SchemaTypes == {Int64, ListType, ArrayType} \cup {Struct(fs) : fs \in FieldLists}
SchemaNames == {<<"a">>, <<"a", "b">>, <<"a", "len">>}
\* lf.collect_schema(): an ordered mapping, so the names differ pairwise.
Schemas ==
    {sch \in UNION {[1..n -> [name : SchemaNames, dtype : SchemaTypes]] : n \in 0..MaxSchema} :
        DistinctNames(sch)}

\* pl.col(column).struct.field(field), pl.col(column).list.len(), pl.col(column)
Expr(op, column, field) == [op |-> op, column |-> column, field |-> field]
Selected(name, dtype, expr) == [name |-> name, dtype |-> dtype, expr |-> expr]

\* The expressions of one schema entry, with the parent column kept beside the
\* fields of a struct.
ExpressionsOf_KeepParent(column) ==
    IF column.dtype.kind = "Struct"
    THEN [i \in 1..Len(column.dtype.fields) |->
             Selected(column.name \o column.dtype.fields[i].name,
                      column.dtype.fields[i].dtype,
                      Expr("struct.field", column.name, column.dtype.fields[i].name))]
         \o <<Selected(column.name, column.dtype, Expr("col", column.name, <<>>))>>
    ELSE IF column.dtype.kind \in {"List", "Array"}
         THEN <<Selected(column.name \o <<"len">>, UInt32,
                         Expr("list.len", column.name, <<>>))>>
         ELSE <<Selected(column.name, column.dtype, Expr("col", column.name, <<>>))>>

\* The body of "for column_name, data_type in schema.items()".
ExpressionsOf(column) ==
    IF column.dtype.kind = "Struct"
    THEN [i \in 1..Len(column.dtype.fields) |->
             Selected(column.name \o column.dtype.fields[i].name,
                      column.dtype.fields[i].dtype,
                      Expr("struct.field", column.name, column.dtype.fields[i].name))]
    ELSE IF column.dtype.kind \in {"List", "Array"}
         THEN <<Selected(column.name \o <<"len">>, UInt32,
                         Expr("list.len", column.name, <<>>))>>
         ELSE <<Selected(column.name, column.dtype, Expr("col", column.name, <<>>))>>

RECURSIVE Expressions(_, _)
Expressions(schema, i) ==
    IF i > Len(schema) THEN <<>>
    ELSE ExpressionsOf(schema[i]) \o Expressions(schema, i + 1)

\* lf.select(expressions): the columns selected, in order.
preprocess_complex_types(schema) == Expressions(schema, 1)

\* isinstance(df, pl.DataFrame), isinstance(df, pl.LazyFrame)
FrameKinds == {"DataFrame", "LazyFrame"}

PreprocessInit ==
    /\ data \in {[kind |-> k, schema |-> sch] :
                    k \in FrameKinds, sch \in Schemas}
               \cup {[kind |-> "dict", schema |-> <<>>]}
    /\ df = [rows |-> 0, columns |-> <<>>, corr |-> NoCoefficients]
    /\ top_k = 0
    /\ pc = "NEW"
    /\ profile = EmptyRecord
    /\ warnings_list = <<>>
    /\ outcome = "running"
    /\ error = NoError
    /\ trace = <<>>
    /\ faults = <<>>
    /\ engine = NoEngine

\* Profiler.__init__(df)
Profiler_init ==
    /\ pc = "NEW"
    /\ IF data.kind \in FrameKinds
       THEN /\ df' = [df EXCEPT !.columns = preprocess_complex_types(data.schema)]
            /\ pc' = "CONSTRUCTED"
            /\ UNCHANGED <<outcome, error>>
       ELSE /\ error' = [type |-> "TypeError", cause |-> "None"]
            /\ outcome' = "raised"
            /\ pc' = "ABORTED"
            /\ UNCHANGED df
    /\ UNCHANGED <<data, engine, top_k, profile, warnings_list, trace, faults>>

PreprocessSpec == PreprocessInit /\ [][Profiler_init]_vars

\* ------------------------------------------------- the top-K plan on values
\* One plan of build_top_k_plan collected on a text column whose cells are
\* given one by one.
MaxValues == 3

CellValues == {None, Str("a"), Str("b")}
ValueColumns == UNION {[1..n -> CellValues] : n \in 0..MaxValues}

\* group_by("value").len(): one row per distinct value, null included, with
\* the number of cells that hold it.
GroupBy(values) ==
    {[value |-> v, count |-> Cardinality({i \in 1..Len(values) : values[i] = v})] :
        v \in {values[i] : i \in 1..Len(values)}}

\* sort("len", descending=True) on the groups: group_by is called without
\* maintain_order and the sort key is the count alone, so the engine may
\* return the groups of one count in any order.
SortedByLen(groups) ==
    {s \in [1..Cardinality(groups) -> groups] :
        /\ \A i, j \in 1..Cardinality(groups) : s[i] = s[j] => i = j
        /\ \A i, j \in 1..Cardinality(groups) : i < j => s[i].count >= s[j].count}

\* .head(k).select(column_name, value, count), then to_dicts()
TopKPlanResults(values, k) ==
    {SubSeq(s, 1, Min(k, Len(s))) : s \in SortedByLen(GroupBy(values))}

TopKInit ==
    /\ df \in {[rows |-> Len(values),
                columns |-> <<[name |-> "c1", dtype |-> "Text", values |-> values]>>,
                corr |-> NoCoefficients] : values \in ValueColumns}
    /\ top_k \in 0..MaxValues
    /\ pc = "TOPK"
    /\ profile = EmptyRecord
    /\ warnings_list = <<>>
    /\ outcome = "running"
    /\ error = NoError
    /\ trace = <<>>
    /\ faults = <<>>
    /\ data = NoData
    /\ engine = NoEngine

\* The body of "for plan in top_k_plans" for the one plan of the frame.
TopKCollect ==
    /\ pc = "TOPK"
    /\ \E items \in TopKPlanResults(df.columns[1].values, top_k) :
           profile' = IF Len(items) > 0
                      THEN Put(profile, TopKKey(df.columns[1].name), [items |-> items])
                      ELSE profile
    /\ pc' = "TOPK_DONE"
    /\ UNCHANGED <<data, engine, df, top_k, warnings_list, outcome, error, trace, faults>>

TopKSpec == TopKInit /\ [][TopKCollect]_vars

\* -------------------------------------------- column discovery on flat keys
\* The keys of the record as the strings they are: the words that "_" joins.
\* The scalar plan aliases f"{column_name}_{metric}"; run() finds the columns
\* back with endswith("_null_count") and replace("_null_count", "").
MetricWords(metric) ==
    CASE metric = "null_count" -> <<"null", "count">>
      [] metric = "n_unique" -> <<"n", "unique">>
      [] metric = "mean_length" -> <<"mean", "length">>
      [] metric = "min_length" -> <<"min", "length">>
      [] metric = "max_length" -> <<"max", "length">>
      [] OTHER -> <<metric>>

\* pl.len().alias("table_row_count") and the aliases of the column statistics.
FlatKeys(lf) ==
    {<<"table", "row", "count">>}
    \cup UNION {{lf.columns[i].name \o MetricWords(m) : m \in ScalarStatsOf(lf.columns[i].dtype)} :
                i \in 1..Len(lf.columns)}

\* scalar_df.rows(named=True)[0], by alias.
FlatScalarRow(lf) ==
    [k \in FlatKeys(lf) |->
        IF k = <<"table", "row", "count">> THEN IntVal(lf.rows) ELSE [alias |-> k]]

\* key.endswith("_null_count")
endswith_null_count(key) ==
    /\ Len(key) >= 3
    /\ key[Len(key) - 1] = "null"
    /\ key[Len(key)] = "count"

RECURSIVE replace_null_count(_, _)
\* key.replace("_null_count", ""), from the i-th word on: every occurrence of
\* "_null_count" goes, not only the suffix.
replace_null_count(key, i) ==
    IF i > Len(key) THEN <<>>
    ELSE IF i >= 2 /\ i + 1 <= Len(key) /\ key[i] = "null" /\ key[i + 1] = "count"
         THEN replace_null_count(key, i + 2)
         ELSE <<key[i]>> \o replace_null_count(key, i + 1)

\* The set `columns` of run().
FlatDiscoveredColumns(prof) ==
    {replace_null_count(key, 1) : key \in {k \in DOMAIN prof : endswith_null_count(k)}}

WordNames == {<<"a">>, <<"b">>, <<"null", "count">>, <<"a", "null", "count">>}
WordFrames ==
    {[rows |-> 1, columns |-> cols, corr |-> NoCoefficients] :
        cols \in {c \in UNION {[1..n -> [name : WordNames, dtype : {"Numeric", "Text"}]] :
                                  n \in 0..MaxSchema} : DistinctNames(c)}}

DiscoverInit ==
    /\ df \in WordFrames
    /\ top_k = 0
    /\ pc = "SCALAR"
    /\ profile = EmptyRecord
    /\ warnings_list = <<>>
    /\ outcome = "running"
    /\ error = NoError
    /\ trace = <<>>
    /\ faults = <<>>
    /\ data = NoData
    /\ engine = NoEngine

\* profile = self._run_scalar_pass()
FlatScalarPass ==
    /\ pc = "SCALAR"
    /\ profile' = FlatScalarRow(df)
    /\ pc' = "DIAGNOSTICS"
    /\ UNCHANGED <<data, engine, df, top_k, warnings_list, outcome, error, trace, faults>>

\* DiagnosticEngine(profile).run(), up to the loop over the columns.
DiscoverColumns ==
    /\ pc = "DIAGNOSTICS"
    /\ engine' = [engine EXCEPT !.columns =
                     IF GetInt(profile, <<"table", "row", "count">>, 0) = 0 THEN {}
                     ELSE FlatDiscoveredColumns(profile)]
    /\ pc' = "DISCOVERED"
    /\ UNCHANGED <<data, df, top_k, profile, warnings_list, outcome, error, trace, faults>>

DiscoverNext == FlatScalarPass \/ DiscoverColumns

DiscoverSpec == DiscoverInit /\ [][DiscoverNext]_vars

\* --------------------------------------------- run() called more than once
\* One DiagnosticEngine instance, run() called on it up to MaxRuns times.
MaxRuns == 2

\* run() on an instance whose list self.alerts holds self_alerts: the checks
\* append to that list, which run() never empties, and the list itself is
\* what run() returns.
DiagnosticEngine_run_again(self_alerts, prof, order) ==
    IF GetRowCount(prof) = 0
    THEN [returned |-> <<>>, alerts |-> self_alerts]
    ELSE LET alerts == self_alerts \o ColumnChecks(prof, GetRowCount(prof), order, 1)
                                   \o check_correlations(prof)
         IN [returned |-> alerts, alerts |-> alerts]

RerunInit ==
    /\ df = [rows |-> 0, columns |-> <<>>, corr |-> NoCoefficients]
    /\ top_k = 0
    /\ pc = "ENGINE"
    /\ profile \in EngineRecords
    /\ warnings_list = <<>>
    /\ outcome = "running"
    /\ error = NoError
    /\ trace = <<>>
    /\ faults = <<>>
    /\ data = NoData
    /\ engine = NoEngine

\* engine.run(), once more on the same instance; the set of columns is built
\* from the same keys each time and is iterated in the same order.
EngineRunAgain ==
    /\ pc = "ENGINE"
    /\ Len(engine.runs) < MaxRuns
    /\ \E order \in IterationOrders(DiscoveredColumns(profile)) :
        /\ engine.runs # <<>> => order = engine.order
        /\ LET r == DiagnosticEngine_run_again(engine.alerts, profile, order)
           IN engine' = [alerts |-> r.alerts,
                         runs |-> Append(engine.runs, r.returned),
                         columns |-> DiscoveredColumns(profile),
                         order |-> order]
    /\ UNCHANGED <<data, df, top_k, pc, profile, warnings_list, outcome, error, trace, faults>>

RerunSpec == RerunInit /\ [][EngineRunAgain]_vars

\* =================================================================== claims
IsPrefix(s, t) == Len(s) <= Len(t) /\ \A i \in 1..Len(s) : s[i] = t[i]
FaultsIn(stage) == SelectSeq(faults, LAMBDA f : f.stage = stage)
HasWarning(text) == \E i \in 1..Len(warnings_list) : warnings_list[i].text = text
NumericNames == Names(NumericColumns(df))
StringNames == Names(StringColumns(df))
\* The number of stages started when profile() is at pc.
StartedAt(p) ==
    CASE p = "SCALAR" -> 0
      [] p = "HISTOGRAM" -> 1
      [] p = "TOPK" -> 2
      [] p = "CORRELATION" -> 3
      [] p = "DIAGNOSTICS" -> 4
      [] p \in {"FINALIZE", "DONE"} -> 5
      [] p = "ABORTED" -> 1

\* C1: the stages are started in the order SCALAR, HISTOGRAM, TOPK, CORRELATION,
\* DIAGNOSTICS, each at most once and only when the one before it has finished;
\* DIAGNOSTICS starts only after CORRELATION, and a returned profile has run
\* all five.
StagesRunInOrder ==
    /\ IsPrefix(trace, Stages)
    /\ Len(trace) = StartedAt(pc)
    /\ (\E i \in 1..Len(trace) : trace[i] = "DIAGNOSTICS") =>
           (\E j \in 1..Len(trace) : trace[j] = "CORRELATION"
                                     /\ trace[j + 1] = "DIAGNOSTICS")
    /\ outcome = "returned" => trace = Stages

AllStagesRan ==
    outcome = "returned" /\ trace = Stages /\ CorrelationsKey \in DOMAIN profile

\* C2: when the scalar pass fails, profile() raises an error carrying the
\* cause, no record (not even a partial one) exists, and no later stage has
\* been started or will be.
ScalarFailureAborts ==
    FaultsIn("SCALAR") # <<>> =>
        /\ outcome = "raised"
        /\ error.type = "RuntimeError"
        /\ error.cause = faults[1].site
        /\ profile = EmptyRecord
        /\ trace = <<"SCALAR">>
        /\ pc = "ABORTED"
        /\ ~ ENABLED Next

ScalarPassFailed ==
    pc = "ABORTED" /\ error.cause = "collect" /\ Len(df.columns) = 2

\* The warning the except handler of (stage, site) appends.
WarningFor(f) ==
    IF f.stage = "HISTOGRAM"
    THEN IF f.site = "hist"
         THEN Warning("Histogram generation failed for column", f.column)
         ELSE Warning("Histogram generation failed", "")
    ELSE IF f.stage = "TOPK" THEN Warning("Top-K generation failed", "")
    ELSE IF f.stage = "CORRELATION"
         THEN IF f.site = "pearson" THEN Warning("Correlation (pearson) failed", "")
              ELSE IF f.site = "spearman"
                   THEN Warning("Correlation (spearman) failed", "")
                   ELSE Warning("Correlation generation failed", "")
    ELSE Warning("Alert generation failed", "")

\* C3: once the scalar pass has succeeded, whatever fails in the later stages,
\* nothing is raised: the i-th failure is the i-th warning of _meta.warnings,
\* the next stage is always run, and profile() returns a record.
LaterFailuresBecomeWarnings ==
    pc \notin {"SCALAR", "ABORTED"} =>
        /\ outcome # "raised" /\ error = NoError
        /\ Len(warnings_list) = Len(faults)
        /\ \A i \in 1..Len(faults) : warnings_list[i] = WarningFor(faults[i])
        /\ Len(trace) = StartedAt(pc)
        /\ pc # "DONE" => ENABLED Next
        /\ pc = "DONE" => /\ outcome = "returned"
                          /\ trace = Stages
                          /\ MetaKey \in DOMAIN profile

EveryLaterStageFailed ==
    /\ outcome = "returned"
    /\ \A s \in {"HISTOGRAM", "TOPK", "CORRELATION", "DIAGNOSTICS"} : FaultsIn(s) # <<>>

\* C4: when the top-K request of one column fails, every other text column of
\* a non-empty dataset (asked for at least one entry) has its top_k key in the
\* returned record, whether it comes before or after the failing column.
TopKColumnsIndependent ==
    (outcome = "returned" /\ df.rows >= 1 /\ top_k >= 1) =>
        \A i \in 1..Len(faults) :
            (faults[i].stage = "TOPK" /\ faults[i].site = "collect") =>
                \A c \in StringNames \ {faults[i].column} : TopKKey(c) \in DOMAIN profile

CorrelationWarnings ==
    {"Correlation generation failed", "Correlation (pearson) failed",
     "Correlation (spearman) failed"}

\* C5 (as stated): any warning starting with "Correlation" means the returned
\* record has no correlations key.
CorrelationWarningMeansNoKey ==
    (outcome = "returned" /\ \E t \in CorrelationWarnings : HasWarning(t)) =>
        CorrelationsKey \notin DOMAIN profile

\* C5 (amended): the stage-level warning "Correlation generation failed" means
\* the returned record has no correlations key; a failure of only the Pearson
\* or only the Spearman computation leaves correlations present, without the
\* matrix of the method that failed.
CorrelationFailureEffect ==
    outcome = "returned" =>
        /\ HasWarning("Correlation generation failed") =>
               CorrelationsKey \notin DOMAIN profile
        /\ HasWarning("Correlation (pearson) failed") =>
               /\ CorrelationsKey \in DOMAIN profile
               /\ "pearson" \notin DOMAIN profile[CorrelationsKey]
        /\ HasWarning("Correlation (spearman) failed") =>
               /\ CorrelationsKey \in DOMAIN profile
               /\ "spearman" \notin DOMAIN profile[CorrelationsKey]

CorrelationFetchFailed ==
    /\ outcome = "returned"
    /\ Len(NumericColumns(df)) > 1
    /\ df.rows >= 1
    /\ \E i \in 1..Len(faults) : faults[i].stage = "CORRELATION" /\ faults[i].site = "fetch"

\* C6: with fewer than 2 numeric columns, or with no row surviving the
\* null-dropping, the returned record has no correlations key and
\* _meta.correlation_method is null.
CorrelationSkipLeavesMethodNull ==
    (outcome = "returned"
     /\ (Len(NumericColumns(df)) < 2 \/ CorrelationHeight(profile, df) = 0)) =>
        /\ CorrelationsKey \notin DOMAIN profile
        /\ profile[MetaKey].correlation_method = NoMethod

\* C7 (as stated): in a returned record, a numeric column without histogram, a
\* text column without top_k, correlations absent with at least 2 numeric
\* columns, or alerts absent, each imply a non-empty _meta.warnings.
AbsenceImpliesWarning ==
    outcome = "returned" =>
        ((\/ \E c \in NumericNames : HistogramKey(c) \notin DOMAIN profile
          \/ \E c \in StringNames : TopKKey(c) \notin DOMAIN profile
          \/ Len(NumericColumns(df)) >= 2 /\ CorrelationsKey \notin DOMAIN profile
          \/ AlertsKey \notin DOMAIN profile)
         => warnings_list # <<>>)

\* C7 (amended): the same, for a dataset with at least one row profiled with
\* top_k >= 1, and, for correlations, when at least one row survives the
\* null-dropping; an absent alerts key always comes with a warning.
AbsenceImpliesWarningNonEmpty ==
    outcome = "returned" =>
        ((\/ df.rows >= 1 /\ \E c \in NumericNames : HistogramKey(c) \notin DOMAIN profile
          \/ df.rows >= 1 /\ top_k >= 1
             /\ \E c \in StringNames : TopKKey(c) \notin DOMAIN profile
          \/ /\ Len(NumericColumns(df)) >= 2
             /\ CorrelationHeight(profile, df) > 0
             /\ CorrelationsKey \notin DOMAIN profile
          \/ AlertsKey \notin DOMAIN profile)
         => warnings_list # <<>>)

HistogramMissingWithWarning ==
    /\ outcome = "returned"
    /\ df.rows >= 1
    /\ \E c \in NumericNames : HistogramKey(c) \notin DOMAIN profile
    /\ Len(warnings_list) = 1

\* The keys a stage may write.
OwnKey(stage, k) ==
    CASE stage = "HISTOGRAM" -> k.metric = "histogram"
      [] stage = "TOPK" -> k.metric = "top_k"
      [] stage = "CORRELATION" -> k \in {CorrelationsKey, MetaKey}
      [] stage = "DIAGNOSTICS" -> k = AlertsKey
      [] stage = "FINALIZE" -> k = MetaKey
      [] OTHER -> FALSE

\* C8: after the scalar pass, no step removes a key or changes the value of a
\* key that is not the running stage's own, every key a stage adds is its
\* own, and warnings are only appended.
EarlierKeysPreserved ==
    [][pc # "SCALAR" =>
        /\ \A k \in DOMAIN profile :
              /\ k \in DOMAIN profile'
              /\ ~ OwnKey(pc, k) => profile'[k] = profile[k]
        /\ \A k \in DOMAIN profile' \ DOMAIN profile : OwnKey(pc, k)
        /\ IsPrefix(warnings_list, warnings_list')]_vars

LaterStagesWroteKeys ==
    /\ outcome = "returned"
    /\ \E c \in NumericNames : HistogramKey(c) \in DOMAIN profile
    /\ CorrelationsKey \in DOMAIN profile
    /\ AlertsKey \in DOMAIN profile
    /\ HasWarning("Correlation (pearson) failed")

\* C9: a returned record has table_row_count and, for every column of the
\* frame whatever its type, null_count and n_unique; a record is returned only
\* when the scalar pass raised nothing.
ScalarKeysPresent ==
    outcome = "returned" =>
        /\ TableRowCountKey \in DOMAIN profile
        /\ \A i \in 1..Len(df.columns) :
              /\ Key(df.columns[i].name, "null_count") \in DOMAIN profile
              /\ Key(df.columns[i].name, "n_unique") \in DOMAIN profile
        /\ FaultsIn("SCALAR") = <<>>

ReturnedWithOtherColumn ==
    /\ outcome = "returned"
    /\ \E i \in 1..Len(df.columns) : df.columns[i].dtype = "Other"
    /\ \E i \in 1..Len(df.columns) : df.columns[i].dtype = "Text"

HistogramWarnings ==
    SelectSeq(warnings_list,
              LAMBDA w : w.text \in {"Histogram generation failed",
                                     "Histogram generation failed for column"})

\* C10: when the only failure of the histogram stage is the hist() of one
\* column, that column has no histogram key, every other numeric column of a
\* non-empty dataset has one, and the stage appended exactly one warning, the
\* one naming that column.
HistogramColumnFailureIsolated ==
    (pc \notin {"SCALAR", "HISTOGRAM", "ABORTED"}
     /\ Len(FaultsIn("HISTOGRAM")) = 1
     /\ FaultsIn("HISTOGRAM")[1].site = "hist") =>
        LET failed == FaultsIn("HISTOGRAM")[1].column
        IN /\ HistogramKey(failed) \notin DOMAIN profile
           /\ \A c \in NumericNames \ {failed} :
                 df.rows >= 1 => HistogramKey(c) \in DOMAIN profile
           /\ HistogramWarnings =
                 <<Warning("Histogram generation failed for column", failed)>>

OneHistogramFailed ==
    /\ pc = "TOPK"
    /\ Len(NumericColumns(df)) >= 2
    /\ Len(FaultsIn("HISTOGRAM")) = 1
    /\ FaultsIn("HISTOGRAM")[1].site = "hist"

\* C11: with at least 2 numeric columns and no failure while fetching, the
\* correlation pass labels its method "sampled (n=100000)" and works on exactly
\* 100000 of the rows iff the row count of the scalar pass is greater than
\* 100000; it labels it "exact" and works on all rows iff the row count is at
\* most 100000, a row count of exactly 100000 included.
CorrelationMethodBySize ==
    (/\ pc \in {"DIAGNOSTICS", "FINALIZE", "DONE"}
     /\ Len(NumericColumns(df)) >= 2
     /\ \A i \in 1..Len(faults) :
            ~(faults[i].stage = "CORRELATION" /\ faults[i].site = "fetch")) =>
        LET R == GetRowCount(profile)
            method == profile[MetaKey].correlation_method
        IN /\ R = df.rows
           /\ (method = SampledMethod) <=> (R > CORRELATION_SAMPLE_SIZE)
           /\ (method = ExactMethod) <=> (R <= CORRELATION_SAMPLE_SIZE)
           /\ method = SampledMethod =>
                  /\ method.n = CORRELATION_SAMPLE_SIZE
                  /\ FetchedRows(profile, df) = CORRELATION_SAMPLE_SIZE
                  /\ FetchedRows(profile, df) < df.rows
           /\ method = ExactMethod => FetchedRows(profile, df) = df.rows

SampledAboveThreshold ==
    /\ outcome = "returned"
    /\ Len(NumericColumns(df)) >= 2
    /\ df.rows = CORRELATION_SAMPLE_SIZE + 1
    /\ profile[MetaKey].correlation_method = SampledMethod
    /\ CorrelationsKey \in DOMAIN profile

\* The matrices of the record, and the names of the columns of one of them.
MatricesOf(prof) ==
    IF CorrelationsKey \in DOMAIN prof
    THEN {prof[CorrelationsKey][m] : m \in DOMAIN prof[CorrelationsKey]} ELSE {}
Labels(matrix) == {matrix.rows[i].column : i \in 1..Len(matrix.rows)}

\* C12: every matrix of a returned record is square (one row per column, one
\* cell per column in each row) and symmetric, the diagonal entry of every
\* column is exactly 1.0, and no entry is NaN.
MatrixWellFormed ==
    outcome = "returned" =>
        \A matrix \in MatricesOf(profile) :
            /\ Cardinality(Labels(matrix)) = Len(matrix.rows)
            /\ \A i \in 1..Len(matrix.rows) :
                   /\ DOMAIN matrix.rows[i].cells = Labels(matrix)
                   /\ matrix.rows[i].cells[matrix.rows[i].column] = Number(1000)
                   /\ \A j \in 1..Len(matrix.rows) :
                          /\ matrix.rows[i].cells[matrix.rows[j].column].kind # "nan"
                          /\ matrix.rows[i].cells[matrix.rows[j].column]
                                 = matrix.rows[j].cells[matrix.rows[i].column]

\* The alerts of the record, and the places of those of one type for a column.
AlertsOf(prof) == IF AlertsKey \in DOMAIN prof THEN prof[AlertsKey] ELSE <<>>
AlertPlaces(c, type) ==
    {i \in 1..Len(AlertsOf(profile)) :
        AlertsOf(profile)[i].column = <<c>> /\ AlertsOf(profile)[i].type = type}
HasAlert(c, type) == AlertPlaces(c, type) # {}
LevelOf(c, type) == {AlertsOf(profile)[i].level : i \in AlertPlaces(c, type)}
EngineRowCount == profile[TableRowCountKey].int
NullCountOf(c) == profile[Key(c, "null_count")].int
UniqueCountOf(c) == profile[Key(c, "n_unique")].int

\* C13: for every column of a record of row_count > 0 the engine has run on,
\* EMPTY_COLUMN (CRITICAL) is there iff null_count/row_count > 19/20, HIGH_NULLS
\* (CRITICAL) iff 1/2 < null_count/row_count <= 19/20, each at most once and
\* never both; so a ratio of exactly 0.95 gives HIGH_NULLS and one of exactly
\* 0.50 gives neither.
NullAlertRule ==
    (pc = "ENGINE_DONE" /\ EngineRowCount > 0) =>
        \A c \in DiscoveredColumns(profile) :
            /\ HasAlert(c, "EMPTY_COLUMN") <=> (20 * NullCountOf(c) > 19 * EngineRowCount)
            /\ HasAlert(c, "HIGH_NULLS") <=>
                   /\ 2 * NullCountOf(c) > EngineRowCount
                   /\ 20 * NullCountOf(c) <= 19 * EngineRowCount
            /\ ~(HasAlert(c, "EMPTY_COLUMN") /\ HasAlert(c, "HIGH_NULLS"))
            /\ Cardinality(AlertPlaces(c, "EMPTY_COLUMN")) <= 1
            /\ Cardinality(AlertPlaces(c, "HIGH_NULLS")) <= 1
            /\ LevelOf(c, "EMPTY_COLUMN") \cup LevelOf(c, "HIGH_NULLS") \subseteq {"CRITICAL"}

\* 19 nulls in 20 rows: a ratio of exactly 0.95.
NullRatioAtCriticalThreshold ==
    /\ pc = "ENGINE_DONE"
    /\ EngineRowCount = 20
    /\ NullCountOf("c1") = 19
    /\ HasAlert("c1", "HIGH_NULLS")

AllDistinctSmallTable ==
    /\ pc = "ENGINE_DONE"
    /\ EngineRowCount = 20
    /\ UniqueCountOf("c1") = 20
    /\ ~HasAlert("c1", "ALL_DISTINCT")

\* C19: HIGH_CARDINALITY (WARNING) is there for a column iff the record has no
\* "{col}_mean" key and 10000 < distinct_count < row_count, at most once; never
\* for a numeric column, nor when distinct_count equals row_count.
HighCardinalityRule ==
    pc = "ENGINE_DONE" =>
        \A c \in DiscoveredColumns(profile) :
            /\ HasAlert(c, "HIGH_CARDINALITY") <=>
                   /\ Key(c, "mean") \notin DOMAIN profile
                   /\ 10000 < UniqueCountOf(c)
                   /\ UniqueCountOf(c) < EngineRowCount
            /\ Cardinality(AlertPlaces(c, "HIGH_CARDINALITY")) <= 1
            /\ LevelOf(c, "HIGH_CARDINALITY") \subseteq {"WARNING"}

\* 10001 distinct values in 10002 rows of a column that is not numeric.
HighCardinalityRaised ==
    /\ pc = "ENGINE_DONE"
    /\ EngineRowCount = 10002
    /\ UniqueCountOf("c1") = 10001
    /\ Key("c1", "mean") \notin DOMAIN profile
    /\ HasAlert("c1", "HIGH_CARDINALITY")

\* The top-K list of a column in the record (empty when it has none), the
\* places of its zero-valued entries and the values that read as a number.
TopKOf(c) ==
    IF Key(c, "top_k") \in DOMAIN profile THEN profile[Key(c, "top_k")].items ELSE <<>>
ZeroPlaces(c) ==
    {i \in 1..Len(TopKOf(c)) : TopKOf(c)[i].value = Number(0)}
FirstZero(c) == CHOOSE i \in ZeroPlaces(c) : \A j \in ZeroPlaces(c) : i <= j
LooksNumeric(v) == v.kind = "number" \/ v \in {Str("7"), Str("0")}

\* C16: ZERO_INFLATED (WARNING) is there for a column iff its top-K list has a
\* zero-valued entry and the count of the first such entry is more than 1/10 of
\* row_count; there is at most one such alert per column and its value is that
\* first entry's share, whatever zero-valued entries come later.
ZeroInflationRule ==
    (pc = "ENGINE_DONE" /\ EngineRowCount > 0) =>
        \A c \in DiscoveredColumns(profile) :
            /\ HasAlert(c, "ZERO_INFLATED") <=>
                   /\ ZeroPlaces(c) # {}
                   /\ 10 * TopKOf(c)[FirstZero(c)].count > EngineRowCount
            /\ Cardinality(AlertPlaces(c, "ZERO_INFLATED")) <= 1
            /\ \A i \in AlertPlaces(c, "ZERO_INFLATED") :
                   /\ AlertsOf(profile)[i].level = "WARNING"
                   /\ AlertsOf(profile)[i].value
                          = Ratio(TopKOf(c)[FirstZero(c)].count, EngineRowCount)

\* Two zero-valued entries of 150 in 1000 rows: one alert, for 150/1000.
ZeroInflatedOnce ==
    /\ pc = "ENGINE_DONE"
    /\ EngineRowCount = 1000
    /\ Cardinality(ZeroPlaces("c1")) >= 2
    /\ \A i \in ZeroPlaces("c1") : TopKOf("c1")[i].count = 150
    /\ Cardinality(AlertPlaces("c1", "ZERO_INFLATED")) = 1

\* A first zero-valued entry of 50 in 1000 rows and a later one of 150: no alert.
LaterZeroIgnored ==
    /\ pc = "ENGINE_DONE"
    /\ EngineRowCount = 1000
    /\ ZeroPlaces("c1") # {}
    /\ TopKOf("c1")[FirstZero("c1")].count = 50
    /\ \E i \in ZeroPlaces("c1") : TopKOf("c1")[i].count = 150
    /\ ~HasAlert("c1", "ZERO_INFLATED")

\* The values of a list that are not None, in list order.
NonNull(l) == SelectSeq(l, LAMBDA item : item.value # None)
FirstN(l, n) == SubSeq(l, 1, Min(Len(l), n))

\* C17 (as stated): a non-numeric column with a top-K list has POSSIBLE_NUMERIC
\* (INFO) iff the first 5 non-null values of the list are not empty and all
\* read as a float; a column with a "{col}_mean" key never has it.
PossibleNumericFirstFiveNonNull ==
    (pc = "ENGINE_DONE" /\ EngineRowCount > 0) =>
        \A c \in DiscoveredColumns(profile) :
            LET sample == FirstN(NonNull(TopKOf(c)), 5)
            IN /\ Key(c, "mean") \in DOMAIN profile => ~HasAlert(c, "POSSIBLE_NUMERIC")
               /\ (Key(c, "mean") \notin DOMAIN profile /\ TopKOf(c) # <<>>) =>
                      (HasAlert(c, "POSSIBLE_NUMERIC") <=>
                          /\ sample # <<>>
                          /\ \A i \in 1..Len(sample) : LooksNumeric(sample[i].value))

\* C17 (amended): a non-numeric column with a top-K list has POSSIBLE_NUMERIC
\* (INFO), once, iff the non-null values among the first 5 entries of the list
\* are not empty and all read as a float; a column with a "{col}_mean" key
\* never has it.
PossibleNumericFirstFiveEntries ==
    (pc = "ENGINE_DONE" /\ EngineRowCount > 0) =>
        \A c \in DiscoveredColumns(profile) :
            LET sample == NonNull(FirstN(TopKOf(c), 5))
            IN /\ Key(c, "mean") \in DOMAIN profile => ~HasAlert(c, "POSSIBLE_NUMERIC")
               /\ (Key(c, "mean") \notin DOMAIN profile /\ TopKOf(c) # <<>>) =>
                      (HasAlert(c, "POSSIBLE_NUMERIC") <=>
                          /\ sample # <<>>
                          /\ \A i \in 1..Len(sample) : LooksNumeric(sample[i].value))
               /\ Cardinality(AlertPlaces(c, "POSSIBLE_NUMERIC")) <= 1
               /\ LevelOf(c, "POSSIBLE_NUMERIC") \subseteq {"INFO"}

\* A None among the first 5 entries and a sixth entry that is no number.
NullAmongFirstFive ==
    /\ pc = "ENGINE_DONE"
    /\ Key("c1", "mean") \notin DOMAIN profile
    /\ Len(TopKOf("c1")) = 6
    /\ \E i \in 1..5 : TopKOf("c1")[i].value = None
    /\ TopKOf("c1")[6].value = Str("a")
    /\ HasAlert("c1", "POSSIBLE_NUMERIC")

\* The HIGH_CORRELATION alerts of the record labelled with the two columns, in
\* either order, and the methods whose matrix holds more than 0.99 (or less
\* than -0.99) for them.
PairAlertPlaces(a, b) ==
    {i \in 1..Len(AlertsOf(profile)) :
        /\ AlertsOf(profile)[i].type = "HIGH_CORRELATION"
        /\ AlertsOf(profile)[i].column \in {<<a, b>>, <<b, a>>}}
CellOf(m, a, b) ==
    LET rows == profile[CorrelationsKey][m].rows
        i == CHOOSE k \in 1..Len(rows) : rows[k].column = a
    IN rows[i].cells[b]
HighMethods(a, b) ==
    IF CorrelationsKey \notin DOMAIN profile THEN {}
    ELSE {m \in DOMAIN profile[CorrelationsKey] :
             /\ CellOf(m, a, b) # None
             /\ (CellOf(m, a, b).milli > 990 \/ CellOf(m, a, b).milli < -990)}

\* C18: in a returned record with alerts, each pair of distinct numeric columns
\* has exactly one HIGH_CORRELATION (WARNING) alert for each matrix whose entry
\* for the pair is above 0.99 in absolute value and none for the others, all
\* of them labelled in the same order of the two columns (never one "A <-> B"
\* and another "B <-> A"); no alert is labelled with one column twice, so the
\* diagonal, and the null entries, raise nothing.
HighCorrelationOncePerPair ==
    (outcome = "returned" /\ AlertsKey \in DOMAIN profile) =>
        /\ \A a, b \in NumericNames :
               a # b =>
                   /\ Cardinality(PairAlertPlaces(a, b)) = Cardinality(HighMethods(a, b))
                   /\ Cardinality({AlertsOf(profile)[i].column : i \in PairAlertPlaces(a, b)}) <= 1
                   /\ \A i \in PairAlertPlaces(a, b) : AlertsOf(profile)[i].level = "WARNING"
        /\ \A i \in 1..Len(AlertsOf(profile)) :
               AlertsOf(profile)[i].type = "HIGH_CORRELATION" =>
                   /\ Len(AlertsOf(profile)[i].column) = 2
                   /\ AlertsOf(profile)[i].column[1] # AlertsOf(profile)[i].column[2]
                   /\ {AlertsOf(profile)[i].column[1], AlertsOf(profile)[i].column[2]}
                          \subseteq NumericNames

\* Both matrices are there; the pair is above the threshold in one of them
\* and at it (0.99) in the other: one alert.
HighCorrelationInOneMatrix ==
    /\ outcome = "returned"
    /\ AlertsKey \in DOMAIN profile
    /\ CorrelationsKey \in DOMAIN profile
    /\ DOMAIN profile[CorrelationsKey] = Methods
    /\ CellOf("pearson", "c1", "c2") = Number(-991)
    /\ CellOf("spearman", "c2", "c1") = Number(990)
    /\ Cardinality(PairAlertPlaces("c1", "c2")) = 1

\* C15: in a returned record with alerts of a dataset of at least one row, a
\* column holding one value in all its rows has exactly one CONSTANT (CRITICAL)
\* alert and neither a SKEWED nor a HIGH_CARDINALITY one.
ConstantColumnAlerts ==
    (outcome = "returned" /\ AlertsKey \in DOMAIN profile /\ df.rows >= 1) =>
        \A i \in 1..Len(df.columns) :
            (df.columns[i].null_count = 0 /\ df.columns[i].n_unique = 1) =>
                /\ Cardinality(AlertPlaces(df.columns[i].name, "CONSTANT")) = 1
                /\ LevelOf(df.columns[i].name, "CONSTANT") = {"CRITICAL"}
                /\ ~HasAlert(df.columns[i].name, "SKEWED")
                /\ ~HasAlert(df.columns[i].name, "HIGH_CARDINALITY")

\* A numeric and a text column, each of one repeated value.
ConstantColumnsProfiled ==
    /\ outcome = "returned"
    /\ AlertsKey \in DOMAIN profile
    /\ df.rows = CORRELATION_SAMPLE_SIZE + 1
    /\ Len(df.columns) = 2
    /\ is_numeric(df.columns[1].dtype) /\ is_string(df.columns[2].dtype)
    /\ \A i \in 1..2 : df.columns[i].null_count = 0 /\ df.columns[i].n_unique = 1
    /\ profile[Key("c1", "skew")] = NaN
    /\ HasAlert("c1", "CONSTANT") /\ HasAlert("c2", "CONSTANT")

AlertSet(alerts) == {alerts[i] : i \in 1..Len(alerts)}

\* C20: whatever the order in which the set of discovered columns is iterated,
\* a run of the engine on the record gives the alerts the first run gave: the
\* same set of (column, type, level, value), and as many.
EngineDeterministic ==
    pc = "ENGINE_DONE" =>
        \A order \in IterationOrders(DiscoveredColumns(profile)) :
            /\ AlertSet(DiagnosticEngine_run(profile, order)) = AlertSet(AlertsOf(profile))
            /\ Len(DiagnosticEngine_run(profile, order)) = Len(AlertsOf(profile))

\* Three columns with alerts, which another iteration order lists differently.
OrderChangesTheList ==
    /\ pc = "ENGINE_DONE"
    /\ Cardinality(DiscoveredColumns(profile)) = 3
    /\ Cardinality({AlertsOf(profile)[i].column : i \in 1..Len(AlertsOf(profile))}) = 3
    /\ \E order \in IterationOrders(DiscoveredColumns(profile)) :
           DiagnosticEngine_run(profile, order) # AlertsOf(profile)
\* ---------------------------------------------------------- the preprocessor
\* The number of output columns one schema entry stands for.
Width(column) ==
    IF column.dtype.kind = "Struct" THEN Len(column.dtype.fields) ELSE 1
RECURSIVE Start(_, _)
\* The number of output columns before those of the i-th schema entry.
Start(schema, i) == IF i = 1 THEN 0 ELSE Start(schema, i - 1) + Width(schema[i - 1])

\* C21: the output columns are those of the schema entries, in schema order; a
\* struct p stands for one column p_f per field f, in field order, and for no
\* column of its own (none at all if it has no field); a list or array s
\* stands for the one integer column s_len; any other column stands for
\* itself, name and type.
PreprocessMapsColumns ==
    pc = "CONSTRUCTED" =>
        LET schema == data.schema
            out == df.columns
        IN /\ Len(out) = Start(schema, Len(schema) + 1)
           /\ \A i \in 1..Len(schema) :
                LET column == schema[i]
                    at == Start(schema, i)
                IN /\ column.dtype.kind = "Struct" =>
                        /\ \A j \in 1..Len(column.dtype.fields) :
                              /\ out[at + j].name = column.name \o column.dtype.fields[j].name
                              /\ out[at + j].expr =
                                    Expr("struct.field", column.name, column.dtype.fields[j].name)
                        /\ \A k \in 1..Len(out) : out[k].expr # Expr("col", column.name, <<>>)
                   /\ column.dtype.kind \in {"List", "Array"} =>
                        /\ out[at + 1].name = column.name \o <<"len">>
                        /\ out[at + 1].dtype = UInt32
                        /\ out[at + 1].expr = Expr("list.len", column.name, <<>>)
                   /\ column.dtype.kind \notin {"Struct", "List", "Array"} =>
                        out[at + 1] = Selected(column.name, column.dtype,
                                               Expr("col", column.name, <<>>))

\* A struct of two fields and a list: three output columns.
StructAndListFlattened ==
    /\ pc = "CONSTRUCTED"
    /\ Len(data.schema) = 2
    /\ data.schema[1].dtype.kind = "Struct" /\ Len(data.schema[1].dtype.fields) = 2
    /\ data.schema[2].dtype.kind = "List"
    /\ Len(df.columns) = 3
    /\ df.columns[3].name = data.schema[2].name \o <<"len">>

\* C22: no column of the preprocessed frame is a struct, a list or an array.
NoComplexOutput ==
    pc = "CONSTRUCTED" =>
        \A k \in 1..Len(df.columns) :
            df.columns[k].dtype.kind \notin {"Struct", "List", "Array"}

\* C27: the names of the columns of the preprocessed frame differ pairwise.
OutputNamesDistinct ==
    pc = "CONSTRUCTED" => DistinctNames(df.columns)
\* ------------------------------------------------------------- top-K lists
\* The place of the first cell of the column that holds v.
FirstSeen(values, v) == CHOOSE i \in 1..Len(values) :
    values[i] = v /\ \A j \in 1..(i - 1) : values[j] # v

\* C23: a top-K list has at most top_k entries, of values that differ pairwise
\* (null being one of the values), in descending order of count, and entries
\* of one count come in the order in which their values first occur in the
\* column.
TopKListWellFormed ==
    (pc = "TOPK_DONE" /\ TopKKey("c1") \in DOMAIN profile) =>
        LET items == profile[TopKKey("c1")].items
            values == df.columns[1].values
        IN /\ Len(items) <= top_k
           /\ \A i, j \in 1..Len(items) : items[i].value = items[j].value => i = j
           /\ \A i, j \in 1..Len(items) : i < j => items[i].count >= items[j].count
           /\ \A i, j \in 1..Len(items) :
                (i < j /\ items[i].count = items[j].count) =>
                    FirstSeen(values, items[i].value) < FirstSeen(values, items[j].value)
\* ------------------------------------------------- type-aware stage outputs
TopKWarnings == SelectSeq(warnings_list, LAMBDA w : w.text = "Top-K generation failed")
\* The type-aware part of C24: histogram keys for numeric columns only, top-K
\* keys for text columns only, never both for one column.
KeysFollowTypes ==
    \A c \in Names(df.columns) :
        /\ HistogramKey(c) \in DOMAIN profile => c \in NumericNames
        /\ TopKKey(c) \in DOMAIN profile => c \in StringNames
        /\ ~(HistogramKey(c) \in DOMAIN profile /\ TopKKey(c) \in DOMAIN profile)

\* C24 (as stated): the stage outputs follow the column types, and a histogram
\* or top-K stage that ran on a frame without a column of its type has added
\* no key and no warning.
StageOutputsTypeAware ==
    /\ KeysFollowTypes
    /\ (StartedAt(pc) >= 2 /\ pc # "ABORTED" /\ NumericNames = {}) =>
          /\ \A k \in DOMAIN profile : k.metric # "histogram"
          /\ HistogramWarnings = <<>>
    /\ (StartedAt(pc) >= 3 /\ pc # "ABORTED" /\ StringNames = {}) =>
          /\ \A k \in DOMAIN profile : k.metric # "top_k"
          /\ TopKWarnings = <<>>

\* C24 (amended): the stage outputs follow the column types; a histogram or
\* top-K stage that ran on a frame without a column of its type has added no
\* key, and has added a warning (one, the stage-level one) only when building
\* its plans raised.
StageOutputsTypeAwareUnlessBuildFails ==
    /\ KeysFollowTypes
    /\ (StartedAt(pc) >= 2 /\ pc # "ABORTED" /\ NumericNames = {}) =>
          /\ \A k \in DOMAIN profile : k.metric # "histogram"
          /\ IF \E i \in 1..Len(faults) : faults[i] = Fault("HISTOGRAM", "batch", "")
             THEN HistogramWarnings = <<Warning("Histogram generation failed", "")>>
             ELSE HistogramWarnings = <<>>
    /\ (StartedAt(pc) >= 3 /\ pc # "ABORTED" /\ StringNames = {}) =>
          /\ \A k \in DOMAIN profile : k.metric # "top_k"
          /\ IF \E i \in 1..Len(faults) : faults[i] = Fault("TOPK", "build_top_k_plan", "")
             THEN TopKWarnings = <<Warning("Top-K generation failed", "")>>
             ELSE TopKWarnings = <<>>

\* A frame of text columns only, on which building the histogram plans raised
\* and the top-K stage wrote its keys.
NoNumericColumnBuildRaised ==
    /\ outcome = "returned"
    /\ df.rows >= 1 /\ top_k >= 1
    /\ NumericNames = {} /\ StringNames # {}
    /\ \A c \in StringNames : TopKKey(c) \in DOMAIN profile
    /\ Len(HistogramWarnings) = 1
\* ----------------------------------------------------- zeros through profile()
\* C25: when no engine call failed, a returned record has a ZERO_INFLATED alert
\* for every numeric column that holds the value 0 in all of its rows.
ZeroColumnAlerted ==
    (outcome = "returned" /\ faults = <<>> /\ df.rows >= 1) =>
        \A i \in 1..Len(df.columns) :
            CellValue(df.columns[i], df.rows) = Number(0) =>
                HasAlert(df.columns[i].name, "ZERO_INFLATED")
\* --------------------------------------------------------- column discovery
\* C26: the columns that run() derives from the keys ending in "_null_count"
\* are the columns of the frame, whatever their names.
DiscoveredAreProfiled ==
    pc = "DISCOVERED" => engine.columns = Names(df.columns)
\* ------------------------------------------------ CONSTANT and ALL_DISTINCT
\* C28: on a record with row_count > 0, no column has both a CONSTANT and an
\* ALL_DISTINCT alert.
ConstantExcludesAllDistinct ==
    (pc = "ENGINE_DONE" /\ EngineRowCount > 0) =>
        \A c \in DiscoveredColumns(profile) :
            ~(HasAlert(c, "CONSTANT") /\ HasAlert(c, "ALL_DISTINCT"))

\* One row, one value: the distinct count is all of the row count, and the
\* column is CONSTANT only.
ConstantSingleRow ==
    /\ pc = "ENGINE_DONE"
    /\ EngineRowCount = 1
    /\ UniqueCountOf("c1") = 1
    /\ HasAlert("c1", "CONSTANT")
    /\ ~HasAlert("c1", "ALL_DISTINCT")
\* ------------------------------------------------------------- empty tables
WithoutRowCount(prof) == [k \in DOMAIN prof \ {TableRowCountKey} |-> prof[k]]

\* C29: the engine returns no alert for a record without row count, whatever
\* its other keys say; and a profile() of a frame of 0 rows that got past the
\* diagnostics stage has an empty alerts list and no warning of that stage.
EmptyTableNoAlerts ==
    /\ pc = "DIAGNOSTICS" =>
          \A order \in IterationOrders(DiscoveredColumns(profile)) :
              DiagnosticEngine_run(WithoutRowCount(profile), order) = <<>>
    /\ (pc \in {"FINALIZE", "DONE"} /\ df.rows = 0) =>
          /\ AlertsKey \in DOMAIN profile
          /\ AlertsOf(profile) = <<>>
          /\ FaultsIn("DIAGNOSTICS") = <<>>
          /\ ~HasWarning("Alert generation failed")

\* A frame of 0 rows with columns, profiled without a warning.
EmptyFrameProfiled ==
    /\ outcome = "returned"
    /\ df.rows = 0
    /\ Len(df.columns) >= 1
    /\ DiscoveredColumns(profile) # {}
    /\ AlertsOf(profile) = <<>>
    /\ warnings_list = <<>>
\* ------------------------------------------------------------ run() twice
\* C30: the second run() on an engine instance returns the list that the first
\* run() returned.
RunIdempotent ==
    Len(engine.runs) >= 2 => engine.runs[2] = engine.runs[1]
====
